---- MODULE Spec2Model ----
(***************************************************************************)
(* Authentication and abuse-control core of CensusGUI:                     *)
(*   SecurityManager (throttle_rules / throttle_log),                      *)
(*   UserManager     (users / login_history),                              *)
(*   SessionManager  (user_sessions),                                      *)
(*   and the auth route handlers that call them.                           *)
(*                                                                         *)
(* Every manager method opens its own connection; psycopg2's               *)
(* "with conn:" commits when the block is left normally.  PostgreSQL runs  *)
(* each transaction READ COMMITTED: a statement sees the rows committed    *)
(* before it started, and CURRENT_TIMESTAMP is the transaction's start.    *)
(* Time is one clock, in whole seconds.  A nullable column holds <<>>      *)
(* (NULL) or <<v>>.  Strings that the code inspects character by character *)
(* (passwords) are tuples of one-character strings.                        *)
(***************************************************************************)
EXTENDS Integers, Sequences, FiniteSets, TLC

VARIABLES
    now,             \* the clock (seconds)
    ticks,           \* how many times the clock has advanced
    throttle_rules,  \* table throttle_rules: endpoint -> NULL or <<rule>>
    throttle_log,    \* table throttle_log, in commit order
    users,           \* table users: user_id -> row
    login_history,   \* table login_history, in commit order
    user_sessions,   \* table user_sessions, in commit order
    pc,              \* per worker: the statement it is at
    loc,             \* per worker: the locals of its call
    calls,           \* history of completed calls: arguments, time, result
    last,            \* the latest completed session or handler call, numbered
    cookie,          \* the client's Flask session: NULL or <<its entries>>
    password_history \* table password_history, in commit order

vars ==
    <<now, ticks, throttle_rules, throttle_log, users, login_history,
      user_sessions, pc, loc, calls, last, cookie, password_history>>

clockVars ==
    <<now, ticks>>

throttleVars ==
    <<throttle_rules, throttle_log>>

userVars ==
    <<users, login_history>>

workerVars ==
    <<pc, loc>>

webVars ==
    <<cookie, password_history>>

----------------------------------------------------------------------------
(* Bounds of the model *)

\* calls per run under the (5, 60 s) rule
MaxCalls60 ==
    7

\* calls per run in the other specifications
MaxCalls ==
    4

\* Requests a browser sends to the handlers in one run.
MaxReq ==
    3

MaxTicks ==
    3

\* verify_user calls per run, and clock advances per run, in the account
\* specifications
MaxCallsV ==
    6

MaxTicksV ==
    2

MaxN ==
    2

MaxW ==
    3

----------------------------------------------------------------------------
(* Values *)

NULL ==
    <<>>

Some(v) ==
    <<v>>

Val(x) ==
    x[1]

Procs ==
    {"w1", "w2"}

IPs ==
    {"ip1", "ip2"}

Endpoints ==
    {"login", "register", "home"}

Last(s) ==
    s[Len(s)]

----------------------------------------------------------------------------
(* SecurityManager.check_rate_limit *)

\* A row of throttle_rules for a metered endpoint.
Rule(n, w) ==
    [max_attempts |-> n, time_window |-> w, lockout_duration |-> w]

\* The rule the specification uses in its worked example: 5 attempts per 60 s.
Rule60 ==
    Rule(5, 60)

SelectRule_default(rules, endpoint) ==
    IF rules[endpoint] = NULL THEN Some(Rule(1, 1)) ELSE rules[endpoint]

\* SELECT ... FROM throttle_rules WHERE endpoint = %s ; fetchone()
SelectRule(rules, endpoint) ==
    rules[endpoint]

InWindow_strictless(timestamp, t, time_window) ==
    timestamp >= t - time_window

\* timestamp > CURRENT_TIMESTAMP - interval '1 second' * time_window
InWindow(timestamp, t, time_window) ==
    timestamp > t - time_window

CountAttempts_anyclient(log, ip, endpoint, t, time_window) ==
    Cardinality({i \in DOMAIN log :
        /\ log[i].endpoint = endpoint
        /\ InWindow(log[i].timestamp, t, time_window)})

\* SELECT COUNT(*) FROM throttle_log WHERE ip_address = %s AND endpoint = %s
\*   AND timestamp > CURRENT_TIMESTAMP - interval '1 second' * %s
CountAttempts(log, ip, endpoint, t, time_window) ==
    Cardinality({i \in DOMAIN log :
        /\ log[i].ip_address = ip
        /\ log[i].endpoint = endpoint
        /\ InWindow(log[i].timestamp, t, time_window)})

IsBlocked_offbyone(attempt_count, max_attempts) ==
    attempt_count > max_attempts

\* is_blocked = attempt_count >= max_attempts
IsBlocked(attempt_count, max_attempts) ==
    attempt_count >= max_attempts

ThrottleRow_unflagged(ip, endpoint, t, is_blocked) ==
    [ip_address |-> ip, endpoint |-> endpoint, timestamp |-> t,
     is_blocked |-> FALSE]

\* INSERT INTO throttle_log (ip_address, endpoint, is_blocked); the
\* timestamp column takes its default, the transaction's CURRENT_TIMESTAMP.
ThrottleRow(ip, endpoint, t, is_blocked) ==
    [ip_address |-> ip, endpoint |-> endpoint, timestamp |-> t,
     is_blocked |-> is_blocked]

CrlCall(ip, endpoint, t, ret) ==
    [op |-> "check_rate_limit", ip |-> ip, endpoint |-> endpoint,
     at |-> t, ret |-> ret]

CrlResult_blockedquiet(rules, log, ip, endpoint, t) ==
    LET rule == SelectRule(rules, endpoint) IN
    IF rule = NULL
    THEN [log |-> log, ret |-> TRUE]
    ELSE LET attempt_count ==
                 CountAttempts(log, ip, endpoint, t, Val(rule).time_window)
             is_blocked == IsBlocked(attempt_count, Val(rule).max_attempts)
         IN [log |-> IF is_blocked THEN log
                     ELSE Append(log, ThrottleRow(ip, endpoint, t, is_blocked)),
             ret |-> ~is_blocked]

\* check_rate_limit run by one caller with no other caller in between:
\* the log it leaves and the value it returns.
CrlResult(rules, log, ip, endpoint, t) ==
    LET rule == SelectRule(rules, endpoint) IN
    IF rule = NULL
    THEN [log |-> log, ret |-> TRUE]
    ELSE LET attempt_count ==
                 CountAttempts(log, ip, endpoint, t, Val(rule).time_window)
             is_blocked == IsBlocked(attempt_count, Val(rule).max_attempts)
         IN [log |-> Append(log, ThrottleRow(ip, endpoint, t, is_blocked)),
             ret |-> ~is_blocked]

CheckRateLimit(ip, endpoint) ==
    /\ LET r == CrlResult(throttle_rules, throttle_log, ip, endpoint, now) IN
       /\ throttle_log' = r.log
       /\ calls' = Append(calls, CrlCall(ip, endpoint, now, r.ret))
    /\ UNCHANGED <<clockVars, throttle_rules, userVars, user_sessions,
                   workerVars, last, webVars>>

\* The same method, statement by statement, for worker p.
\* Statement 1: connect, BEGIN, SELECT the rule; "if not rule: return True".
CrlSelectRule(p, ip, endpoint) ==
    /\ pc[p] = "idle"
    /\ LET rule == SelectRule(throttle_rules, endpoint) IN
       IF rule = NULL
       THEN /\ calls' = Append(calls, CrlCall(ip, endpoint, now, TRUE))
            /\ UNCHANGED <<pc, loc, last, webVars>>
       ELSE /\ pc' = [pc EXCEPT ![p] = "crl_count"]
            /\ loc' = [loc EXCEPT ![p] =
                        [ip |-> ip, endpoint |-> endpoint, txn_start |-> now,
                         max_attempts |-> Val(rule).max_attempts,
                         time_window |-> Val(rule).time_window]]
            /\ UNCHANGED calls
    /\ UNCHANGED <<clockVars, throttleVars, userVars, user_sessions, last, webVars>>

\* Statement 2: SELECT COUNT(*) over the rows committed so far.
CrlCount(p) ==
    /\ pc[p] = "crl_count"
    /\ pc' = [pc EXCEPT ![p] = "crl_insert"]
    /\ loc' = [loc EXCEPT ![p] =
                [ip |-> loc[p].ip, endpoint |-> loc[p].endpoint,
                 txn_start |-> loc[p].txn_start,
                 max_attempts |-> loc[p].max_attempts,
                 time_window |-> loc[p].time_window,
                 attempt_count |->
                     CountAttempts(throttle_log, loc[p].ip, loc[p].endpoint,
                                   loc[p].txn_start, loc[p].time_window)]]
    /\ UNCHANGED <<clockVars, throttleVars, userVars, user_sessions, calls, last, webVars>>

\* Statement 3: INSERT the row (not yet visible to the other workers).
CrlInsert(p) ==
    /\ pc[p] = "crl_insert"
    /\ pc' = [pc EXCEPT ![p] = "crl_commit"]
    /\ loc' = [loc EXCEPT ![p] =
                [ip |-> loc[p].ip, endpoint |-> loc[p].endpoint,
                 txn_start |-> loc[p].txn_start,
                 is_blocked |->
                     IsBlocked(loc[p].attempt_count, loc[p].max_attempts)]]
    /\ UNCHANGED <<clockVars, throttleVars, userVars, user_sessions, calls, last, webVars>>

\* "return not is_blocked": leaving the with-block commits the row.
CrlCommit(p) ==
    /\ pc[p] = "crl_commit"
    /\ throttle_log' =
           Append(throttle_log,
                  ThrottleRow(loc[p].ip, loc[p].endpoint, loc[p].txn_start,
                              loc[p].is_blocked))
    /\ calls' = Append(calls, CrlCall(loc[p].ip, loc[p].endpoint,
                                      loc[p].txn_start, ~loc[p].is_blocked))
    /\ pc' = [pc EXCEPT ![p] = "idle"]
    /\ loc' = [loc EXCEPT ![p] = NULL]
    /\ UNCHANGED <<clockVars, throttle_rules, userVars, user_sessions, last, webVars>>

----------------------------------------------------------------------------
(* UserManager: the users table and verify_user *)

\* WHEN failed_login_attempts + 1 >= 5
LockoutThreshold ==
    5

\* CURRENT_TIMESTAMP + interval '15 minutes'
LockSeconds ==
    15 * 60

UnameAlice ==
    <<"a", "l", "i", "c", "e">>

\* upper, lower, digit and symbol, at least 8 characters
PwStrong ==
    <<"C", "o", "r", "r", "e", "c", "t", "1", "!">>

PwWrong ==
    <<"W", "r", "o", "n", "g", "P", "a", "s", "s", "1", "!">>

\* bcrypt.hashpw(password, gensalt(12)): the salt is left out, a hash is
\* told apart by the password it was made from.
hashpw(password) ==
    [alg |-> "bcrypt", of |-> password]

\* bcrypt.checkpw(password, password_hash)
checkpw(password, password_hash) ==
    password_hash = hashpw(password)

\* A row of users as create_user and the column defaults leave it.
UserRow(username, email, password, is_active, token, t) ==
    [username |-> username, email |-> email,
     password_hash |-> hashpw(password), is_active |-> is_active,
     activation_token |-> Some(token),
     activation_token_created_at |-> Some(t),
     failed_login_attempts |-> 0, account_locked_until |-> NULL,
     last_failed_login |-> NULL, last_login |-> NULL]

SelectUserByName_any(us, username) ==
    IF us = <<>> THEN NULL ELSE Some(1)

\* SELECT ... FROM users WHERE username = %s ; fetchone()
SelectUserByName(us, username) ==
    LET ids == {u \in DOMAIN us : us[u].username = username} IN
    IF ids = {} THEN NULL ELSE Some(CHOOSE u \in ids : TRUE)

IsLocked_never(row, t) ==
    FALSE

IsLocked_inclusive(row, t) ==
    /\ row.account_locked_until # NULL
    /\ Val(row.account_locked_until) >= t

\* user['account_locked_until'] and user['account_locked_until'] > datetime.now()
IsLocked(row, t) ==
    /\ row.account_locked_until # NULL
    /\ Val(row.account_locked_until) > t

FailedLoginUpdate_exact(row, t) ==
    [row EXCEPT !.failed_login_attempts = @ + 1,
                !.last_failed_login = Some(t),
                !.account_locked_until =
                    IF row.failed_login_attempts + 1 = LockoutThreshold
                    THEN Some(t + LockSeconds)
                    ELSE @]

FailedLoginUpdate_restart(row, t) ==
    [row EXCEPT !.failed_login_attempts =
                    IF row.account_locked_until # NULL THEN 1 ELSE @ + 1,
                !.last_failed_login = Some(t),
                !.account_locked_until =
                    IF row.account_locked_until = NULL
                       /\ row.failed_login_attempts + 1 >= LockoutThreshold
                    THEN Some(t + LockSeconds)
                    ELSE NULL]

\* UPDATE users SET failed_login_attempts = failed_login_attempts + 1,
\*   last_failed_login = CURRENT_TIMESTAMP, account_locked_until = CASE ...
FailedLoginUpdate(row, t) ==
    [row EXCEPT !.failed_login_attempts = @ + 1,
                !.last_failed_login = Some(t),
                !.account_locked_until =
                    IF row.failed_login_attempts + 1 >= LockoutThreshold
                    THEN Some(t + LockSeconds)
                    ELSE @]

\* UPDATE users SET failed_login_attempts = 0, account_locked_until = NULL,
\*   last_login = CURRENT_TIMESTAMP
SuccessfulLoginUpdate(row, t) ==
    [row EXCEPT !.failed_login_attempts = 0,
                !.account_locked_until = NULL,
                !.last_login = Some(t)]

\* dict(user): the columns the first SELECT of verify_user fetched
UserDict(u, row) ==
    [user_id |-> u, username |-> row.username,
     password_hash |-> row.password_hash, is_active |-> row.is_active,
     failed_login_attempts |-> row.failed_login_attempts,
     account_locked_until |-> row.account_locked_until]

\* _log_login_attempt: INSERT INTO login_history (...)
HistoryRow(user_id, ip, ua, successful, failure_reason) ==
    [user_id |-> user_id, ip_address |-> ip, user_agent |-> ua,
     login_successful |-> successful, failure_reason |-> failure_reason]

\* The branch verify_user takes on the row it read: which reason it logs,
\* which UPDATE it issues ("fail", "ok" or "none") and what it returns.
VerifyBranch(us, username, password, t) ==
    LET found == SelectUserByName(us, username) IN
    IF found = NULL
    THEN [user_id |-> NULL, reason |-> Some("User not found"),
          update |-> "none", ret |-> NULL]
    ELSE LET u == Val(found)
             row == us[u]
         IN IF IsLocked(row, t)
            THEN [user_id |-> found, reason |-> Some("Account locked"),
                  update |-> "none", ret |-> NULL]
            ELSE IF ~checkpw(password, row.password_hash)
            THEN [user_id |-> found, reason |-> Some("Invalid password"),
                  update |-> "fail", ret |-> NULL]
            ELSE IF ~row.is_active
            THEN [user_id |-> found, reason |-> Some("Account not activated"),
                  update |-> "none", ret |-> NULL]
            ELSE [user_id |-> found, reason |-> NULL,
                  update |-> "ok", ret |-> Some(UserDict(u, row))]

\* The row an UPDATE of verify_user writes, computed from the current row.
ApplyUpdate(row, update, t) ==
    IF update = "fail" THEN FailedLoginUpdate(row, t)
    ELSE IF update = "ok" THEN SuccessfulLoginUpdate(row, t)
    ELSE row

VuCall(username, password, t, b) ==
    [op |-> "verify_user", username |-> username, password |-> password,
     at |-> t, ret |-> b.ret, reason |-> b.reason]

VerifyResult_quiet(us, history, username, password, ip, ua, t) ==
    LET b == VerifyBranch(us, username, password, t) IN
    [users |-> IF b.update = "none" THEN us
               ELSE [us EXCEPT ![Val(b.user_id)] = ApplyUpdate(@, b.update, t)],
     history |-> IF b.user_id = NULL THEN history
                 ELSE Append(history,
                             HistoryRow(b.user_id, ip, ua, b.ret # NULL,
                                        b.reason)),
     branch |-> b]

\* verify_user run by one caller with no other caller in between: the
\* tables it leaves and the branch it took.
VerifyResult(us, history, username, password, ip, ua, t) ==
    LET b == VerifyBranch(us, username, password, t) IN
    [users |-> IF b.update = "none" THEN us
               ELSE [us EXCEPT ![Val(b.user_id)] = ApplyUpdate(@, b.update, t)],
     history |-> Append(history,
                        HistoryRow(b.user_id, ip, ua, b.ret # NULL, b.reason)),
     branch |-> b]

VerifyUser(username, password, ip, ua) ==
    LET r == VerifyResult(users, login_history, username, password, ip, ua, now) IN
    /\ users' = r.users
    /\ login_history' = r.history
    /\ calls' = Append(calls, VuCall(username, password, now, r.branch))
    /\ UNCHANGED <<clockVars, throttleVars, user_sessions, workerVars, last, webVars>>

\* The same method, statement by statement, for worker p.
\* Statement 1: connect, BEGIN, SELECT the row; the branch is decided on it.
VuSelect(p, username, password, ip, ua) ==
    /\ pc[p] = "idle"
    /\ LET b == VerifyBranch(users, username, password, now) IN
       /\ loc' = [loc EXCEPT ![p] =
                    [username |-> username, password |-> password,
                     ip |-> ip, ua |-> ua, txn_start |-> now,
                     branch |-> b, pending |-> NULL]]
       /\ pc' = [pc EXCEPT ![p] =
                    IF b.update = "none" THEN "vu_log" ELSE "vu_update"]
    /\ UNCHANGED <<clockVars, throttleVars, userVars, user_sessions, calls, last, webVars>>

\* Worker q holds the row lock of user u: it has updated and not committed.
HoldsRowLock(q, u) ==
    /\ pc[q] \in {"vu_log", "vu_commit"}
    /\ loc[q].pending # NULL
    /\ loc[q].branch.user_id = Some(u)

\* Statement 2: the UPDATE.  It waits for the row lock and then computes the
\* new row from the row as committed by then.
VuUpdate(p) ==
    /\ pc[p] = "vu_update"
    /\ LET u == Val(loc[p].branch.user_id) IN
       /\ \A q \in Procs \ {p} : ~HoldsRowLock(q, u)
       /\ loc' = [loc EXCEPT ![p].pending =
                    Some(ApplyUpdate(users[u], loc[p].branch.update,
                                     loc[p].txn_start))]
    /\ pc' = [pc EXCEPT ![p] = "vu_log"]
    /\ UNCHANGED <<clockVars, throttleVars, userVars, user_sessions, calls, last, webVars>>

\* _log_login_attempt: its own connection, committed at once.
VuLog(p) ==
    /\ pc[p] = "vu_log"
    /\ login_history' =
           Append(login_history,
                  HistoryRow(loc[p].branch.user_id, loc[p].ip, loc[p].ua,
                             loc[p].branch.ret # NULL, loc[p].branch.reason))
    /\ pc' = [pc EXCEPT ![p] = "vu_commit"]
    /\ UNCHANGED <<clockVars, throttleVars, users, user_sessions, loc, calls, last, webVars>>

\* return: leaving the with-block commits the UPDATE and frees the row.
VuCommit(p) ==
    /\ pc[p] = "vu_commit"
    /\ users' = IF loc[p].pending = NULL THEN users
                ELSE [users EXCEPT ![Val(loc[p].branch.user_id)] =
                         Val(loc[p].pending)]
    /\ calls' = Append(calls, VuCall(loc[p].username, loc[p].password,
                                     loc[p].txn_start, loc[p].branch))
    /\ pc' = [pc EXCEPT ![p] = "idle"]
    /\ loc' = [loc EXCEPT ![p] = NULL]
    /\ UNCHANGED <<clockVars, throttleVars, login_history, user_sessions, last, webVars>>

----------------------------------------------------------------------------
(* SecurityManager when the store fails, and get_rate_limit_status *)

\* Whether fail names one of the store operations a call runs, in order.
Fails(fail, steps) ==
    \E i \in DOMAIN steps : steps[i] = fail

\* The store operations check_rate_limit runs: it connects, selects the
\* rule, returns at once when there is none, else counts and inserts; leaving
\* the with-block commits.
CrlSteps(rules, endpoint) ==
    IF SelectRule(rules, endpoint) = NULL
    THEN <<"connect", "rule", "commit">>
    ELSE <<"connect", "rule", "count", "insert", "commit">>

CrlOnFailure_open ==
    TRUE

\* except Exception: return False
CrlOnFailure ==
    FALSE

\* The record kept of the latest call; n counts the calls.
CrlCallF(ip, endpoint, t, failed, ret) ==
    [n |-> last.n + 1, op |-> "check_rate_limit", ip |-> ip,
     endpoint |-> endpoint, at |-> t, failed |-> failed, ret |-> ret]

\* check_rate_limit, sequential callers, where the store operation named by
\* fail raises.  A commit that raises may or may not have stored the row.
CheckRateLimitF(ip, endpoint, fail) ==
    LET r == CrlResult(throttle_rules, throttle_log, ip, endpoint, now)
        failed == Fails(fail, CrlSteps(throttle_rules, endpoint))
    IN /\ IF ~failed THEN throttle_log' = r.log
          ELSE IF fail = "commit" THEN throttle_log' \in {throttle_log, r.log}
          ELSE throttle_log' = throttle_log
       /\ last' = CrlCallF(ip, endpoint, now, failed,
                            IF failed THEN CrlOnFailure ELSE r.ret)
       /\ UNCHANGED <<clockVars, throttle_rules, userVars, user_sessions,
                      workerVars, calls, webVars>>

\* max(0, x)
Max0(x) ==
    IF x < 0 THEN 0 ELSE x

StatusRows_inclusive(log, ip, endpoint, t3, time_window) ==
    {i \in DOMAIN log :
        /\ log[i].ip_address = ip
        /\ log[i].endpoint = endpoint
        /\ 3 * log[i].timestamp >= t3 - 3 * time_window}

\* The rows get_rate_limit_status counts.  Its CURRENT_TIMESTAMP is taken
\* with sub-second precision: t3 is that instant in thirds of a second.
\*   timestamp > CURRENT_TIMESTAMP - interval '1 second' * time_window
StatusRows(log, ip, endpoint, t3, time_window) ==
    {i \in DOMAIN log :
        /\ log[i].ip_address = ip
        /\ log[i].endpoint = endpoint
        /\ 3 * log[i].timestamp > t3 - 3 * time_window}

RoundThirds_trunc(h) ==
    h \div 3

\* EXTRACT(EPOCH FROM (...))::INTEGER : the cast rounds to the nearest whole
\* second; h is the interval in thirds of a second, h >= 0.
RoundThirds(h) ==
    (2 * h + 3) \div 6

\* The earliest timestamp among the rows, MIN(timestamp).
MinTimestamp(log, rows) ==
    CHOOSE m \in {log[i].timestamp : i \in rows} :
        \A i \in rows : m <= log[i].timestamp

\* get_rate_limit_status with a healthy store:
\* (remaining_attempts, seconds_until_reset), or (-1, -1) without a rule.
StatusResult(rules, log, ip, endpoint, t3) ==
    LET rule == SelectRule(rules, endpoint) IN
    IF rule = NULL THEN <<-1, -1>>
    ELSE LET rows == StatusRows(log, ip, endpoint, t3, Val(rule).time_window)
             current_attempts == Cardinality(rows)
             elapsed_seconds ==
                 IF rows = {} THEN 0
                 ELSE RoundThirds(t3 - 3 * MinTimestamp(log, rows))
         IN <<Max0(Val(rule).max_attempts - current_attempts),
              Max0(Val(rule).time_window - elapsed_seconds)>>

\* except Exception: return (0, 0)
StatusOnFailure ==
    <<0, 0>>

\* The store operations get_rate_limit_status runs.
StatusSteps(rules, endpoint) ==
    IF SelectRule(rules, endpoint) = NULL
    THEN <<"connect", "rule", "commit">>
    ELSE <<"connect", "rule", "count", "commit">>

\* get_rate_limit_status(ip_address, endpoint), called third/3 s after now,
\* where the store operation named by fail raises.
GetRateLimitStatus(ip, endpoint, third, fail) ==
    LET failed == Fails(fail, StatusSteps(throttle_rules, endpoint)) IN
    /\ last' =
           [n |-> last.n + 1, op |-> "get_rate_limit_status", ip |-> ip,
            endpoint |-> endpoint, at |-> now, third |-> third,
            failed |-> failed,
            ret |-> IF failed THEN StatusOnFailure
                    ELSE StatusResult(throttle_rules, throttle_log, ip,
                                      endpoint, 3 * now + third)]
    /\ UNCHANGED <<clockVars, throttleVars, userVars, user_sessions,
                   workerVars, calls, webVars>>

----------------------------------------------------------------------------
(* SecurityManager.clear_expired_logs *)

\* interval '1 day', in seconds
RetentionSeconds ==
    86400

Expired_inclusive(timestamp, t) ==
    timestamp <= t - RetentionSeconds

\* The WHERE clause of the DELETE:
\*   timestamp < CURRENT_TIMESTAMP - interval '1 day'
Expired(timestamp, t) ==
    timestamp < t - RetentionSeconds

\* throttle_log after DELETE FROM throttle_log WHERE ...: the rows that do
\* not match, in their order.
ClearedLog(log, t) ==
    LET Kept(r) == ~Expired(r.timestamp, t) IN SelectSeq(log, Kept)

\* clear_expired_logs(), where the store operation named by fail raises:
\* True after the DELETE is committed, "except Exception: return False".
\* A commit that raises may or may not have stored the deletion.  deleted
\* is the number of rows the call removed.
ClearExpiredLogs(fail) ==
    LET failed == Fails(fail, <<"connect", "delete", "commit">>) IN
    /\ IF ~failed THEN throttle_log' = ClearedLog(throttle_log, now)
       ELSE IF fail = "commit"
       THEN throttle_log' \in {throttle_log, ClearedLog(throttle_log, now)}
       ELSE throttle_log' = throttle_log
    /\ last' = [n |-> last.n + 1, op |-> "clear_expired_logs", at |-> now,
                failed |-> failed, ret |-> ~failed,
                deleted |-> Len(throttle_log) - Len(throttle_log')]
    /\ UNCHANGED <<clockVars, throttle_rules, userVars, user_sessions,
                   workerVars, calls, webVars>>

----------------------------------------------------------------------------
(* SessionManager *)

\* expires_at = datetime.now() + timedelta(hours=24)
SessionTTL ==
    24 * 3600

\* The values secrets.token_urlsafe(32) hands out in a run.
Tokens ==
    {"t1", "t2"}

UAs ==
    {"ua1", "ua2"}

\* secrets.token_urlsafe(32): a token no session holds yet.
FreshTokens(sessions) ==
    Tokens \ {sessions[i].session_token : i \in DOMAIN sessions}

\* INSERT INTO user_sessions (user_id, session_token, ip_address,
\*   user_agent, expires_at); is_active takes its default TRUE.
SessionRow(user_id, token, ip, ua, t) ==
    [session_token |-> token, user_id |-> user_id,
     ip_address |-> ip, user_agent |-> ua, expires_at |-> t + SessionTTL,
     is_active |-> TRUE]

SessionMatches_noua(row, token, ip, ua, t) ==
    /\ row.session_token = token
    /\ row.ip_address = ip
    /\ row.expires_at > t
    /\ row.is_active

SessionMatches_noactive(row, token, ip, ua, t) ==
    /\ row.session_token = token
    /\ row.ip_address = ip
    /\ row.user_agent = ua
    /\ row.expires_at > t

SessionMatches_inclusive(row, token, ip, ua, t) ==
    /\ row.session_token = token
    /\ row.ip_address = ip
    /\ row.user_agent = ua
    /\ row.expires_at >= t
    /\ row.is_active

\* WHERE session_token = %s AND ip_address = %s AND user_agent = %s
\*   AND expires_at > CURRENT_TIMESTAMP AND is_active = TRUE
SessionMatches(row, token, ip, ua, t) ==
    /\ row.session_token = token
    /\ row.ip_address = ip
    /\ row.user_agent = ua
    /\ row.expires_at > t
    /\ row.is_active

\* SELECT user_id ...; "return result[0] if result else None"
SelectSession(sessions, token, ip, ua, t) ==
    LET hits == {i \in DOMAIN sessions :
                    SessionMatches(sessions[i], token, ip, ua, t)}
    IN IF hits = {} THEN NULL
       ELSE Some(sessions[CHOOSE i \in hits : TRUE].user_id)

InvalidateTargets_all(sessions, token) ==
    DOMAIN sessions

\* UPDATE user_sessions SET is_active = FALSE WHERE session_token = %s
\*   RETURNING session_id : the rows the UPDATE touches
InvalidateTargets(sessions, token) ==
    {i \in DOMAIN sessions : sessions[i].session_token = token}

\* The record kept of a completed session call; n counts the calls.
SessCall(op, token, ip, ua, t, ret) ==
    [n |-> last.n + 1, op |-> op, token |-> token, ip |-> ip, ua |-> ua,
     at |-> t, ret |-> ret]

\* create_session(user_id, ip_address, user_agent)
CreateSession(user_id, ip, ua) ==
    /\ \E token \in FreshTokens(user_sessions) :
          /\ user_sessions' =
                 Append(user_sessions, SessionRow(user_id, token, ip, ua, now))
          /\ last' = SessCall("create_session", token, ip, ua, now,
                               Some(token))
    /\ UNCHANGED <<clockVars, throttleVars, userVars, workerVars, calls, webVars>>

\* verify_session(session_token, ip_address, user_agent)
VerifySession(token, ip, ua) ==
    /\ last' = SessCall("verify_session", token, ip, ua, now,
                        SelectSession(user_sessions, token, ip, ua, now))
    /\ UNCHANGED <<clockVars, throttleVars, userVars, user_sessions,
                   workerVars, calls, webVars>>

\* invalidate_session(session_token): "return cur.fetchone() is not None"
InvalidateSession(token) ==
    LET hit == InvalidateTargets(user_sessions, token) IN
    /\ user_sessions' =
           [i \in DOMAIN user_sessions |->
               IF i \in hit
               THEN [user_sessions[i] EXCEPT !.is_active = FALSE]
               ELSE user_sessions[i]]
    /\ last' = SessCall("invalidate_session", token, NULL, NULL, now,
                        hit # {})
    /\ UNCHANGED <<clockVars, throttleVars, userVars, workerVars, calls, webVars>>

\* The same three methods, step by step, for worker p.
\* Entry: create_session draws its token and computes expires_at from
\* datetime.now() (kept in at) before it connects; began is the number of
\* calls that had returned when this one was entered.  stmt_at is the
\* CURRENT_TIMESTAMP of verify_session's SELECT.
SsBegin(p, op, user_id, token, ip, ua) ==
    /\ pc[p] = "idle"
    /\ op = "create_session" =>
          /\ token \in FreshTokens(user_sessions)
          /\ \A q \in Procs \ {p} :
                 IF loc[q] = NULL THEN TRUE ELSE Val(loc[q]).token # token
    /\ pc' = [pc EXCEPT ![p] = "ss_stmt"]
    /\ loc' = [loc EXCEPT ![p] =
                 Some([op |-> op, user_id |-> user_id, token |-> token,
                       ip |-> ip, ua |-> ua, began |-> Len(calls),
                       at |-> IF op = "create_session" THEN Some(now) ELSE NULL,
                       stmt_at |-> NULL, ret |-> NULL])]
    /\ UNCHANGED <<clockVars, throttleVars, userVars, user_sessions, calls,
                   last, webVars>>

\* Worker q has run its UPDATE on the rows of token and not yet committed.
HoldsSessionLock(q, token) ==
    /\ pc[q] = "ss_commit"
    /\ Val(loc[q]).op = "invalidate_session"
    /\ Val(loc[q]).token = token

\* The statement: it sees the rows committed so far.  The INSERT and the
\* UPDATE stay invisible to the other workers until the commit; the UPDATE
\* waits for a row lock another worker holds.
SsStmt(p) ==
    /\ pc[p] = "ss_stmt"
    /\ LET c == Val(loc[p]) IN
       /\ c.op = "invalidate_session" =>
             \A q \in Procs \ {p} : ~HoldsSessionLock(q, c.token)
       /\ loc' = [loc EXCEPT ![p] =
              Some([c EXCEPT
                  !.stmt_at = IF c.op = "verify_session" THEN Some(now) ELSE NULL,
                  !.ret =
                  IF c.op = "create_session" THEN Some(c.token)
                  ELSE IF c.op = "verify_session"
                  THEN SelectSession(user_sessions, c.token, c.ip, c.ua, now)
                  ELSE IF InvalidateTargets(user_sessions, c.token) # {}
                       THEN Some(TRUE) ELSE Some(FALSE)])]
    /\ pc' = [pc EXCEPT ![p] = "ss_commit"]
    /\ UNCHANGED <<clockVars, throttleVars, userVars, user_sessions, calls,
                   last, webVars>>

\* Leaving the with-block commits, and the method returns.
SsCommit(p) ==
    /\ pc[p] = "ss_commit"
    /\ LET c == Val(loc[p]) IN
       /\ user_sessions' =
              IF c.op = "create_session"
              THEN Append(user_sessions,
                          SessionRow(c.user_id, c.token, c.ip, c.ua, Val(c.at)))
              ELSE IF c.op = "invalidate_session"
              THEN [i \in DOMAIN user_sessions |->
                       IF i \in InvalidateTargets(user_sessions, c.token)
                       THEN [user_sessions[i] EXCEPT !.is_active = FALSE]
                       ELSE user_sessions[i]]
              ELSE user_sessions
       /\ calls' = Append(calls, c)
    /\ pc' = [pc EXCEPT ![p] = "idle"]
    /\ loc' = [loc EXCEPT ![p] = NULL]
    /\ UNCHANGED <<clockVars, throttleVars, userVars, last, webVars>>

----------------------------------------------------------------------------
(* UserManager: create_user, activate_user, update_password *)

\* timedelta(days=1)
ActivationTTL ==
    24 * 3600

\* secrets.token_urlsafe(32): a token no other row holds
ActTokenFor(user_id) ==
    CASE user_id = 1 -> "tokA"
      [] user_id = 2 -> "tokB"
      [] OTHER -> "tokC"

\* SELECT username, email FROM users WHERE username = %s OR email = %s
Duplicates(us, username, email) ==
    {u \in DOMAIN us : us[u].username = username \/ us[u].email = email}

\* create_user: the table it leaves and the user_id it returns (NULL: None)
CreateUserResult(us, username, email, password, t) ==
    IF Duplicates(us, username, email) # {}
    THEN [users |-> us, ret |-> NULL]
    ELSE [users |-> Append(us, UserRow(username, email, password, TRUE,
                                       ActTokenFor(Len(us) + 1), t)),
          ret |-> Some(Len(us) + 1)]

\* SELECT user_id, is_active, activation_token_created_at FROM users
\*   WHERE activation_token = %s
SelectUserByToken(us, token) ==
    LET ids == {u \in DOMAIN us : us[u].activation_token = Some(token)} IN
    IF ids = {} THEN NULL ELSE Some(CHOOSE u \in ids : TRUE)

TokenExpired_inclusive(token_created_at, t) ==
    token_created_at <= t - ActivationTTL

\* token_created_at < current_time - timedelta(days=1)
TokenExpired(token_created_at, t) ==
    token_created_at < t - ActivationTTL

\* UPDATE users SET is_active = TRUE, activation_token = NULL,
\*   activation_token_created_at = NULL WHERE user_id = %s
ActivationUpdate(row) ==
    [row EXCEPT !.is_active = TRUE,
                !.activation_token = NULL,
                !.activation_token_created_at = NULL]

\* The branch activate_user takes on the row it read.
ActivateBranch(us, token, t) ==
    LET found == SelectUserByToken(us, token) IN
    IF found = NULL
    THEN [user_id |-> NULL, branch |-> "invalid", ret |-> FALSE]
    ELSE LET row == us[Val(found)] IN
         IF row.is_active
         THEN [user_id |-> found, branch |-> "already", ret |-> TRUE]
         ELSE IF row.activation_token_created_at = NULL
         THEN [user_id |-> found, branch |-> "error", ret |-> FALSE]
         ELSE IF TokenExpired(Val(row.activation_token_created_at), t)
         THEN [user_id |-> found, branch |-> "expired", ret |-> FALSE]
         ELSE [user_id |-> found, branch |-> "activated", ret |-> TRUE]

\* The line activate_user writes with self.logger on the branch b: its text
\* and the value interpolated into it, the token on the unknown-token branch
\* and the user_id on the others.
ActivateLogged(token, b) ==
    IF b.branch = "invalid"
    THEN [text |-> "Invalid activation token attempted", token |-> Some(token),
          user_id |-> NULL]
    ELSE IF b.branch = "already"
    THEN [text |-> "Already activated account accessed", token |-> NULL,
          user_id |-> b.user_id]
    ELSE IF b.branch = "expired"
    THEN [text |-> "Expired activation token used", token |-> NULL,
          user_id |-> b.user_id]
    ELSE IF b.branch = "activated"
    THEN [text |-> "Successfully activated account", token |-> NULL,
          user_id |-> b.user_id]
    ELSE [text |-> "Error in activate_user", token |-> NULL, user_id |-> NULL]

\* The record kept of a completed activate_user call, the branch it took and
\* the line it logged.
ActCall(token, t, b) ==
    [op |-> "activate_user", token |-> token, at |-> t, branch |-> b.branch,
     ret |-> b.ret, logged |-> ActivateLogged(token, b)]

\* activate_user(token)
ActivateUser(token) ==
    LET b == ActivateBranch(users, token, now) IN
    /\ users' = IF b.branch = "activated"
                THEN [users EXCEPT ![Val(b.user_id)] = ActivationUpdate(@)]
                ELSE users
    /\ calls' = Append(calls, ActCall(token, now, b))
    /\ UNCHANGED <<clockVars, throttleVars, login_history, user_sessions,
                   workerVars, last, webVars>>

\* update_password: UPDATE users SET password_hash ... RETURNING user_id,
\* then INSERT INTO password_history
UpdatePasswordResult(us, history, user_id, new_password) ==
    IF user_id \in DOMAIN us
    THEN [users |-> [us EXCEPT ![user_id].password_hash = hashpw(new_password)],
          password_history |->
              Append(history, [user_id |-> user_id,
                               password_hash |-> hashpw(new_password)]),
          ret |-> TRUE]
    ELSE [users |-> us, password_history |-> history, ret |-> FALSE]

----------------------------------------------------------------------------
(* UserManager: create_user and update_user_profile, concurrent callers *)

UniqueViolation_off(us, username, email, skip) ==
    FALSE

\* The users table declares username UNIQUE and email UNIQUE: a committed
\* row other than skip holds the username or the email.
UniqueViolation(us, username, email, skip) ==
    \E u \in DOMAIN us \ {skip} :
        us[u].username = username \/ us[u].email = email

\* Worker q has written, and not committed, a row that holds the username or
\* the email, or a new version of a row that held one of them: a writer of
\* such a key waits for q to commit.
WritesKey(q, username, email) ==
    /\ loc[q] # NULL
    /\ loc[q].pending
    /\ \/ loc[q].username = username
       \/ loc[q].email = email
       \/ /\ loc[q].op = "update_user_profile"
          /\ loc[q].user_id \in DOMAIN users
          /\ \/ users[loc[q].user_id].username = username
             \/ users[loc[q].user_id].email = email

\* create_user, statement 1: the SELECT for an existing username or email;
\* "return None" when it finds one.
CuSelect(p, username, email, password) ==
    /\ pc[p] = "idle"
    /\ loc' = [loc EXCEPT ![p] =
                 [op |-> "create_user", user_id |-> 0,
                  username |-> username, email |-> email,
                  password |-> password, began |-> Len(calls),
                  pending |-> FALSE, raised |-> FALSE]]
    /\ pc' = [pc EXCEPT ![p] =
                 IF Duplicates(users, username, email) # {}
                 THEN "cu_return" ELSE "cu_insert"]
    /\ UNCHANGED <<clockVars, throttleVars, userVars, user_sessions, calls,
                   last, webVars>>

\* create_user, statement 2: the INSERT.  It waits for an uncommitted writer
\* of the same username or email; against a committed one the store raises
\* and "except Exception: return None" rolls back.
CuInsert(p) ==
    /\ pc[p] = "cu_insert"
    /\ \A q \in Procs \ {p} : ~WritesKey(q, loc[p].username, loc[p].email)
    /\ LET raised == UniqueViolation(users, loc[p].username, loc[p].email, 0)
       IN loc' = [loc EXCEPT ![p].pending = ~raised, ![p].raised = raised]
    /\ pc' = [pc EXCEPT ![p] = "cu_return"]
    /\ UNCHANGED <<clockVars, throttleVars, userVars, user_sessions, calls,
                   last, webVars>>

\* create_user returns: leaving the with-block commits the INSERT, and the
\* call returns the new user_id, or None when nothing was inserted.  The
\* record of the call keeps whether the store raised.
CuReturn(p) ==
    /\ pc[p] = "cu_return"
    /\ users' = IF loc[p].pending
                THEN Append(users,
                            UserRow(loc[p].username, loc[p].email,
                                    loc[p].password, TRUE,
                                    ActTokenFor(Len(users) + 1), now))
                ELSE users
    /\ calls' = Append(calls,
                  [op |-> "create_user", user_id |-> 0,
                   username |-> loc[p].username, email |-> loc[p].email,
                   began |-> loc[p].began, raised |-> loc[p].raised,
                   ret |-> IF loc[p].pending THEN Some(Len(users) + 1)
                           ELSE NULL])
    /\ pc' = [pc EXCEPT ![p] = "idle"]
    /\ loc' = [loc EXCEPT ![p] = NULL]
    /\ UNCHANGED <<clockVars, throttleVars, login_history, user_sessions,
                   last, webVars>>

\* SELECT user_id FROM users
\*   WHERE (username = %s OR email = %s) AND user_id != %s
ProfileTaken_anyuser(us, user_id, username, email) ==
    Duplicates(us, username, email) # {}

ProfileTaken(us, user_id, username, email) ==
    Duplicates(us, username, email) \ {user_id} # {}

\* update_user_profile, statement 1: the SELECT; "return False" on a hit.
UpSelect(p, user_id, username, email) ==
    /\ pc[p] = "idle"
    /\ loc' = [loc EXCEPT ![p] =
                 [op |-> "update_user_profile", user_id |-> user_id,
                  username |-> username, email |-> email,
                  password |-> <<>>, began |-> Len(calls),
                  pending |-> FALSE, raised |-> FALSE]]
    /\ pc' = [pc EXCEPT ![p] =
                 IF ProfileTaken(users, user_id, username, email)
                 THEN "up_return" ELSE "up_update"]
    /\ UNCHANGED <<clockVars, throttleVars, userVars, user_sessions, calls,
                   last, webVars>>

\* update_user_profile, statement 2: the UPDATE ... RETURNING user_id.  It
\* waits for an uncommitted writer of the row or of the same username or
\* email; it touches no row when user_id is unknown, and the store raises
\* when another committed row holds the username or the email.
UpUpdate(p) ==
    /\ pc[p] = "up_update"
    /\ \A q \in Procs \ {p} :
          /\ ~WritesKey(q, loc[p].username, loc[p].email)
          /\ ~(loc[q] # NULL /\ loc[q].pending
               /\ loc[q].op = "update_user_profile"
               /\ loc[q].user_id = loc[p].user_id)
    /\ LET raised == /\ loc[p].user_id \in DOMAIN users
                     /\ UniqueViolation(users, loc[p].username,
                                        loc[p].email, loc[p].user_id)
       IN loc' = [loc EXCEPT
                    ![p].pending = loc[p].user_id \in DOMAIN users /\ ~raised,
                    ![p].raised = raised]
    /\ pc' = [pc EXCEPT ![p] = "up_return"]
    /\ UNCHANGED <<clockVars, throttleVars, userVars, user_sessions, calls,
                   last, webVars>>

\* update_user_profile returns: the commit stores the new username and
\* email; "return cur.fetchone() is not None".  The record of the call keeps
\* the row RETURNING gave, NULL for the result False.
UpReturn(p) ==
    /\ pc[p] = "up_return"
    /\ users' = IF loc[p].pending
                THEN [users EXCEPT
                        ![loc[p].user_id].username = loc[p].username,
                        ![loc[p].user_id].email = loc[p].email]
                ELSE users
    /\ calls' = Append(calls,
                  [op |-> "update_user_profile", user_id |-> loc[p].user_id,
                   username |-> loc[p].username, email |-> loc[p].email,
                   began |-> loc[p].began, raised |-> loc[p].raised,
                   ret |-> IF loc[p].pending THEN Some(loc[p].user_id)
                           ELSE NULL])
    /\ pc' = [pc EXCEPT ![p] = "idle"]
    /\ loc' = [loc EXCEPT ![p] = NULL]
    /\ UNCHANGED <<clockVars, throttleVars, login_history, user_sessions,
                   last, webVars>>

----------------------------------------------------------------------------
(* UserManager and SessionManager when the store fails *)

\* The record kept of the latest call; n counts the calls.
CoreCall(op, failed, ret) ==
    [n |-> last.n + 1, op |-> op, failed |-> failed, ret |-> ret]

\* The store operations verify_user runs on the branch b: connect, SELECT,
\* the UPDATE of the wrong-password and success branches, the INSERT of
\* _log_login_attempt on its own connection, and the commit on return.
VuSteps(b) ==
    IF b.update = "none"
    THEN <<"connect", "select", "log", "commit">>
    ELSE <<"connect", "select", "update", "log", "commit">>

VerifyUserF_logfatal(username, password, ip, ua, fail) ==
    LET r == VerifyResult(users, login_history, username, password, ip, ua, now)
        failed == Fails(fail, VuSteps(r.branch))
        c == [username |-> username, password |-> password, at |-> now,
              fail |-> fail]
    IN /\ IF ~failed
          THEN /\ users' = r.users
               /\ login_history' = r.history
               /\ last' = CoreCall("verify_user", FALSE, r.branch.ret) @@ c
          ELSE IF fail = "commit"
          THEN /\ users' \in {users, r.users}
               /\ login_history' = r.history
               /\ last' = CoreCall("verify_user", TRUE, NULL) @@ c
          ELSE /\ users' = users
               /\ login_history' = login_history
               /\ last' = CoreCall("verify_user", TRUE, NULL) @@ c
       /\ UNCHANGED <<clockVars, throttleVars, user_sessions, workerVars,
                      calls, webVars>>

\* verify_user, sequential callers, where the store operation named by fail
\* raises.  connect, select, update: the except branch returns None and the
\* transaction is rolled back, before anything was logged.  log: the
\* exception is caught inside _log_login_attempt and verify_user goes on as
\* if the entry had been written.  commit: the entry is already written, the
\* except branch returns None, and the UPDATE may or may not be stored.
\* The record of the call keeps its arguments and the operation that raised.
VerifyUserF(username, password, ip, ua, fail) ==
    LET r == VerifyResult(users, login_history, username, password, ip, ua, now)
        failed == Fails(fail, VuSteps(r.branch))
        c == [username |-> username, password |-> password, at |-> now,
              fail |-> fail]
    IN /\ IF ~failed
          THEN /\ users' = r.users
               /\ login_history' = r.history
               /\ last' = CoreCall("verify_user", FALSE, r.branch.ret) @@ c
          ELSE IF fail = "log"
          THEN /\ users' = r.users
               /\ login_history' = login_history
               /\ last' = CoreCall("verify_user", TRUE, r.branch.ret) @@ c
          ELSE IF fail = "commit"
          THEN /\ users' \in {users, r.users}
               /\ login_history' = r.history
               /\ last' = CoreCall("verify_user", TRUE, NULL) @@ c
          ELSE /\ users' = users
               /\ login_history' = login_history
               /\ last' = CoreCall("verify_user", TRUE, NULL) @@ c
       /\ UNCHANGED <<clockVars, throttleVars, user_sessions, workerVars,
                      calls, webVars>>

\* The store operations of the three session methods.
SessSteps(op) ==
    IF op = "create_session" THEN <<"connect", "insert", "commit">>
    ELSE IF op = "verify_session" THEN <<"connect", "select", "commit">>
    ELSE <<"connect", "update", "commit">>

\* create_session where the store operation named by fail raises:
\* "except Exception: return None".
CreateSessionF(user_id, ip, ua, fail) ==
    LET failed == Fails(fail, SessSteps("create_session")) IN
    /\ \E token \in FreshTokens(user_sessions) :
          LET stored == Append(user_sessions,
                               SessionRow(user_id, token, ip, ua, now))
          IN /\ IF ~failed THEN user_sessions' = stored
                ELSE IF fail = "commit"
                THEN user_sessions' \in {user_sessions, stored}
                ELSE user_sessions' = user_sessions
             /\ last' = CoreCall("create_session", failed,
                                 IF failed THEN NULL ELSE Some(token))
    /\ UNCHANGED <<clockVars, throttleVars, userVars, workerVars, calls,
                   webVars>>

\* verify_session where the store operation named by fail raises:
\* "except Exception: return None".
VerifySessionF(token, ip, ua, fail) ==
    LET failed == Fails(fail, SessSteps("verify_session")) IN
    /\ last' = CoreCall("verify_session", failed,
                        IF failed THEN NULL
                        ELSE SelectSession(user_sessions, token, ip, ua, now))
    /\ UNCHANGED <<clockVars, throttleVars, userVars, user_sessions,
                   workerVars, calls, webVars>>

\* invalidate_session where the store operation named by fail raises:
\* "except Exception: return False".
InvalidateSessionF(token, fail) ==
    LET failed == Fails(fail, SessSteps("invalidate_session"))
        hit == InvalidateTargets(user_sessions, token)
        stored == [i \in DOMAIN user_sessions |->
                      IF i \in hit
                      THEN [user_sessions[i] EXCEPT !.is_active = FALSE]
                      ELSE user_sessions[i]]
    IN /\ IF ~failed THEN user_sessions' = stored
          ELSE IF fail = "commit"
          THEN user_sessions' \in {user_sessions, stored}
          ELSE user_sessions' = user_sessions
       /\ last' = CoreCall("invalidate_session", failed,
                           IF failed THEN FALSE ELSE hit # {})
       /\ UNCHANGED <<clockVars, throttleVars, userVars, workerVars, calls,
                      webVars>>

\* The store operations activate_user runs on the branch b.
ActSteps(b) ==
    IF b.branch = "activated"
    THEN <<"connect", "select", "update", "commit">>
    ELSE <<"connect", "select", "commit">>

\* activate_user where the store operation named by fail raises:
\* "except Exception: return False".
ActivateUserF(token, fail) ==
    LET b == ActivateBranch(users, token, now)
        failed == Fails(fail, ActSteps(b))
        stored == IF b.branch = "activated"
                  THEN [users EXCEPT ![Val(b.user_id)] = ActivationUpdate(@)]
                  ELSE users
    IN /\ IF ~failed THEN users' = stored
          ELSE IF fail = "commit" THEN users' \in {users, stored}
          ELSE users' = users
       /\ last' = CoreCall("activate_user", failed,
                           IF failed THEN FALSE ELSE b.ret)
       /\ UNCHANGED <<clockVars, throttleVars, login_history, user_sessions,
                      workerVars, calls, webVars>>

----------------------------------------------------------------------------
(* routes/auth: validators and handlers *)

UpperCase ==
    {"A", "B", "C", "D", "E", "F", "G", "H", "I", "J", "K", "L", "M",
     "N", "O", "P", "Q", "R", "S", "T", "U", "V", "W", "X", "Y", "Z"}

LowerCase ==
    {"a", "b", "c", "d", "e", "f", "g", "h", "i", "j", "k", "l", "m",
     "n", "o", "p", "q", "r", "s", "t", "u", "v", "w", "x", "y", "z"}

Digits ==
    {"0", "1", "2", "3", "4", "5", "6", "7", "8", "9"}

\* The grave accent, which a TLA+ string cannot hold, under another name.
Grave ==
    "grave"

\* [ !@#$%&'()*+,-./[\\\]^_`{|}~"] : ",-." is the range from "," to "."
Special ==
    {" ", "!", "@", "#", "$", "%", "&", "'", "(", ")", "*", "+", ",", "-",
     ".", "/", "[", "\\", "]", "^", "_", Grave, "{", "|", "}", "~", "\""}

\* re.search(r"[...]", s)
Search(class, s) ==
    \E i \in DOMAIN s : s[i] \in class

\* validate_password(password) -> (is_valid, error)
validate_password(password) ==
    IF Len(password) < 8
    THEN [is_valid |-> FALSE,
          error |-> "Password must be at least 8 characters long"]
    ELSE IF ~Search(UpperCase, password)
    THEN [is_valid |-> FALSE,
          error |-> "Password must contain uppercase letters"]
    ELSE IF ~Search(LowerCase, password)
    THEN [is_valid |-> FALSE,
          error |-> "Password must contain lowercase letters"]
    ELSE IF ~Search(Digits, password)
    THEN [is_valid |-> FALSE, error |-> "Password must contain numbers"]
    ELSE IF ~Search(Special, password)
    THEN [is_valid |-> FALSE,
          error |-> "Password must contain special characters"]
    ELSE [is_valid |-> TRUE, error |-> ""]

\* re.match(r"^[a-zA-Z0-9_-]{3,20}$", username)
validate_username(username) ==
    IF /\ Len(username) >= 3
       /\ Len(username) <= 20
       /\ \A i \in DOMAIN username :
             username[i] \in UpperCase \cup LowerCase \cup Digits \cup {"_", "-"}
    THEN [is_valid |-> TRUE, error |-> ""]
    ELSE [is_valid |-> FALSE,
          error |-> "Username must be 3-20 characters and contain only letters, numbers, underscores, and hyphens"]

\* The addresses email_validator.validate_email accepts, among those tried;
\* each is already in the normal form it returns.
WellFormedEmails ==
    {"alice@example.org", "bob@example.org"}

\* validate_email_address(email) -> (is_valid, normalized_email, error)
validate_email_address(email) ==
    IF email \in WellFormedEmails
    THEN [is_valid |-> TRUE, email |-> email, error |-> ""]
    ELSE [is_valid |-> FALSE, email |-> "", error |-> "EmailNotValidError"]

UnameBob ==
    <<"b", "o", "b">>

\* too short, and no upper case, digit or symbol
PwWeak ==
    <<"a", "b", "c">>

\* 8 characters with upper, lower and digit but no symbol
PwNoSymbol ==
    <<"A", "b", "c", "d", "e", "f", "1", "2">>

\* a second password that satisfies the policy
PwStrong2 ==
    <<"N", "e", "w", "e", "r", "-", "2", "x">>

\* The response of a handler; n counts the requests.
Resp(op, status, body) ==
    [n |-> last.n + 1, op |-> op, status |-> status, body |-> body]

Login_verifyfirst(ip, ua, username, password) ==
    LET rl == CrlResult(throttle_rules, throttle_log, ip, "login", now)
        v == VerifyResult(users, login_history, username, password, ip, ua, now)
        user == v.branch.ret
    IN /\ throttle_log' = rl.log
       /\ users' = v.users
       /\ login_history' = v.history
       /\ IF ~rl.ret
          THEN /\ last' = Resp("login", 429,
                          "Too many login attempts. Please try again later.")
               /\ UNCHANGED <<user_sessions, cookie>>
          ELSE IF user = NULL
          THEN /\ last' = Resp("login", 200, "Invalid credentials")
               /\ UNCHANGED <<user_sessions, cookie>>
          ELSE IF ~Val(user).is_active
          THEN /\ last' = Resp("login", 200, "Please verify your email address.")
               /\ UNCHANGED <<user_sessions, cookie>>
          ELSE \E token \in FreshTokens(user_sessions) :
                  /\ user_sessions' =
                         Append(user_sessions,
                                SessionRow(Val(user).user_id, token, ip, ua, now))
                  /\ cookie' = Some([user_id |-> Val(user).user_id,
                                     username |-> Val(user).username,
                                     session_token |-> token])
                  /\ last' = Resp("login", 200, "success")
       /\ UNCHANGED <<clockVars, throttle_rules, workerVars, calls,
                      password_history>>

\* POST /login
Login(ip, ua, username, password) ==
    LET rl == CrlResult(throttle_rules, throttle_log, ip, "login", now)
        v == VerifyResult(users, login_history, username, password, ip, ua, now)
        user == v.branch.ret
    IN /\ throttle_log' = rl.log
       /\ users' = IF rl.ret THEN v.users ELSE users
       /\ login_history' = IF rl.ret THEN v.history ELSE login_history
       /\ IF ~rl.ret
          THEN /\ last' = Resp("login", 429,
                          "Too many login attempts. Please try again later.")
               /\ UNCHANGED <<user_sessions, cookie>>
          ELSE IF user = NULL
          THEN /\ last' = Resp("login", 200, "Invalid credentials")
               /\ UNCHANGED <<user_sessions, cookie>>
          ELSE IF ~Val(user).is_active
          THEN /\ last' = Resp("login", 200, "Please verify your email address.")
               /\ UNCHANGED <<user_sessions, cookie>>
          ELSE \E token \in FreshTokens(user_sessions) :
                  /\ user_sessions' =
                         Append(user_sessions,
                                SessionRow(Val(user).user_id, token, ip, ua, now))
                  /\ cookie' = Some([user_id |-> Val(user).user_id,
                                     username |-> Val(user).username,
                                     session_token |-> token])
                  /\ last' = Resp("login", 200, "success")
       /\ UNCHANGED <<clockVars, throttle_rules, workerVars, calls,
                      password_history>>

\* POST /account/change_password, behind login_required
ChangePassword(ip, ua, current_password, new_password, confirm_password) ==
    /\ IF cookie = NULL
       THEN /\ last' = Resp("change_password", 302, "auth.login")
            /\ UNCHANGED <<userVars, webVars>>
       ELSE IF SelectSession(user_sessions, Val(cookie).session_token,
                             ip, ua, now) = NULL
       THEN /\ cookie' = NULL
            /\ last' = Resp("change_password", 302, "auth.login")
            /\ UNCHANGED <<userVars, password_history>>
       ELSE LET v == VerifyResult(users, login_history, Val(cookie).username,
                                  current_password, ip, ua, now)
                up == UpdatePasswordResult(v.users, password_history,
                                           Val(cookie).user_id, new_password)
            IN /\ login_history' = v.history
               /\ UNCHANGED cookie
               /\ IF v.branch.ret = NULL
                  THEN /\ users' = v.users
                       /\ last' = Resp("change_password", 302,
                                       "Current password is incorrect")
                       /\ UNCHANGED password_history
                  ELSE IF new_password # confirm_password
                  THEN /\ users' = v.users
                       /\ last' = Resp("change_password", 302,
                                       "New passwords do not match")
                       /\ UNCHANGED password_history
                  ELSE /\ users' = up.users
                       /\ password_history' = up.password_history
                       /\ last' = Resp("change_password", 302,
                                       IF up.ret
                                       THEN "Password updated successfully"
                                       ELSE "Error updating password")
    /\ UNCHANGED <<clockVars, throttleVars, user_sessions, workerVars, calls>>

\* POST /register
Register(ip, username, email, password) ==
    LET rl == CrlResult(throttle_rules, throttle_log, ip, "register", now)
        ve == validate_email_address(email)
        vp == validate_password(password)
        vu == validate_username(username)
        cu == CreateUserResult(users, username, ve.email, password, now)
    IN /\ throttle_log' = rl.log
       /\ IF ~rl.ret
          THEN /\ last' = Resp("register", 429,
                   "Too many registration attempts. Please try again later.")
               /\ UNCHANGED users
          ELSE IF ~ve.is_valid
          THEN /\ last' = Resp("register", 200, ve.error)
               /\ UNCHANGED users
          ELSE IF ~vp.is_valid
          THEN /\ last' = Resp("register", 200, vp.error)
               /\ UNCHANGED users
          ELSE IF ~vu.is_valid
          THEN /\ last' = Resp("register", 200, vu.error)
               /\ UNCHANGED users
          ELSE IF cu.ret = NULL
          THEN /\ last' = Resp("register", 200, "Registration failed")
               /\ UNCHANGED users
          ELSE /\ users' = cu.users
               /\ last' = Resp("register", 200,
                    "Registration successful but email verification failed. Please contact support.")
       /\ UNCHANGED <<clockVars, throttle_rules, login_history, user_sessions,
                      workerVars, calls, webVars>>

----------------------------------------------------------------------------
(* routes/auth: login_required, a protected page, logout *)

login_required_nofingerprint(sessions, ck, ip, ua, t) ==
    IF ck = NULL THEN [run |-> FALSE, cookie |-> ck]
    ELSE IF \E i \in DOMAIN sessions :
               /\ sessions[i].session_token = Val(ck).session_token
               /\ sessions[i].expires_at > t
               /\ sessions[i].is_active
    THEN [run |-> TRUE, cookie |-> ck]
    ELSE [run |-> FALSE, cookie |-> NULL]

\* The decorator login_required, on a request from (ip, ua) that carries
\* the cookie ck: whether the decorated handler runs, and the cookie the
\* response leaves.  Without credentials in the cookie it redirects at
\* once; otherwise it calls verify_session with the request's address and
\* agent, and "session.clear()" when that returns nothing.
login_required(sessions, ck, ip, ua, t) ==
    IF ck = NULL THEN [run |-> FALSE, cookie |-> ck]
    ELSE IF SelectSession(sessions, Val(ck).session_token, ip, ua, t) = NULL
    THEN [run |-> FALSE, cookie |-> NULL]
    ELSE [run |-> TRUE, cookie |-> ck]

\* The record kept of the latest request to a page behind login_required;
\* token is the session token the request's cookie carried, if any.
PageResp(op, ip, ua, status, body) ==
    [n |-> last.n + 1, op |-> op, ip |-> ip, ua |-> ua, at |-> now,
     token |-> IF cookie = NULL THEN NULL
               ELSE Some(Val(cookie).session_token),
     status |-> status, body |-> body]

\* SELECT ... FROM users WHERE user_id = %s; "dict(user) if user else None"
get_user(us, user_id) ==
    IF user_id \in DOMAIN us
    THEN Some([user_id |-> user_id, username |-> us[user_id].username,
               email |-> us[user_id].email,
               is_active |-> us[user_id].is_active,
               last_login |-> us[user_id].last_login])
    ELSE NULL

\* GET /account/profile_settings, behind login_required: the page shows
\* db.get_user(session['user_id']).
ProfileSettings(ip, ua) ==
    LET lr == login_required(user_sessions, cookie, ip, ua, now) IN
    /\ cookie' = lr.cookie
    /\ last' = IF lr.run
               THEN PageResp("profile_settings", ip, ua, 200,
                             get_user(users, Val(cookie).user_id))
               ELSE PageResp("profile_settings", ip, ua, 302, "auth.login")
    /\ UNCHANGED <<clockVars, throttleVars, userVars, user_sessions,
                   workerVars, calls, password_history>>

\* GET /logout: invalidate_session on the cookie's token, session.clear().
Logout(ip, ua) ==
    /\ user_sessions' =
          IF cookie = NULL THEN user_sessions
          ELSE [i \in DOMAIN user_sessions |->
                   IF i \in InvalidateTargets(user_sessions,
                                              Val(cookie).session_token)
                   THEN [user_sessions[i] EXCEPT !.is_active = FALSE]
                   ELSE user_sessions[i]]
    /\ cookie' = NULL
    /\ last' = PageResp("logout", ip, ua, 302, "main.index")
    /\ UNCHANGED <<clockVars, throttleVars, userVars, workerVars, calls,
                   password_history>>

\* The session cookie is kept by the browser, signed by the server: a
\* browser can present again any cookie a login has issued to it.  The
\* cookie issued with session i holds that session's user and token.
PresentCookie(i) ==
    /\ i \in DOMAIN user_sessions
    /\ cookie' = Some([user_id |-> user_sessions[i].user_id,
                       username |-> users[user_sessions[i].user_id].username,
                       session_token |-> user_sessions[i].session_token])
    /\ cookie' # cookie
    /\ UNCHANGED <<clockVars, throttleVars, userVars, user_sessions,
                   workerVars, calls, last, password_history>>

----------------------------------------------------------------------------
(* routes/auth/password: password reset *)

\* Validity of a password-reset token: one hour.
ResetTTL ==
    3600

ResetTokens ==
    {"r1", "r2"}

\* The account columns of the reset token, as an account without a pending
\* reset holds them.
NoReset ==
    [reset_password_token |-> NULL, reset_token_created_at |-> NULL]

\* db.create_password_reset_token(email): the account with that email, if
\* any, gets the token and the time of issue; the token when one was issued.
CreateResetTokenResult(us, email, token, t) ==
    LET hits == {u \in DOMAIN us : us[u].email = email} IN
    IF hits = {} THEN [users |-> us, ret |-> NULL]
    ELSE LET u == CHOOSE u \in hits : TRUE
         IN [users |-> [us EXCEPT ![u].reset_password_token = Some(token),
                                  ![u].reset_token_created_at = Some(t)],
             ret |-> Some(token)]

\* db.reset_password(token, new_password): consumes the token.  The account
\* holding the token, issued not more than ResetTTL ago, gets the hash of
\* the new password and loses the token; true iff there was such an account.
ResetPasswordResult(us, token, new_password, t) ==
    LET hits == {u \in DOMAIN us :
                    /\ us[u].reset_password_token = Some(token)
                    /\ t - Val(us[u].reset_token_created_at) <= ResetTTL}
    IN IF hits = {} THEN [users |-> us, ret |-> FALSE]
       ELSE LET u == CHOOSE u \in hits : TRUE
            IN [users |-> [us EXCEPT
                              ![u].password_hash = hashpw(new_password),
                              ![u].reset_password_token = NULL,
                              ![u].reset_token_created_at = NULL],
                ret |-> TRUE]

\* POST /reset-password
RequestPasswordReset(ip, email) ==
    LET rl == CrlResult(throttle_rules, throttle_log, ip, "password_reset",
                        now)
    IN /\ throttle_log' = rl.log
       /\ IF ~rl.ret
          THEN /\ last' = [n |-> last.n + 1, op |-> "request_password_reset",
                           status |-> 429,
                           body |-> "Too many reset attempts. Please try again later."]
               /\ UNCHANGED users
          ELSE /\ \E token \in ResetTokens :
                     users' = CreateResetTokenResult(users, email, token,
                                                     now).users
               /\ last' = [n |-> last.n + 1, op |-> "request_password_reset",
                           status |-> 200,
                           body |-> "If an account exists, you will receive reset instructions."]
       /\ UNCHANGED <<clockVars, throttle_rules, login_history,
                      user_sessions, workerVars, calls, webVars>>

ResetPassword_novalidate(token, new_password) ==
    LET rp == ResetPasswordResult(users, token, new_password, now)
        c == [n |-> last.n + 1, op |-> "reset_password", token |-> token,
              password |-> new_password, status |-> 200]
    IN /\ users' = rp.users
       /\ last' = c @@ (IF rp.ret
                        THEN [success |-> TRUE,
                              body |-> "Password updated successfully."]
                        ELSE [success |-> FALSE,
                              body |-> "Invalid or expired reset token."])
       /\ UNCHANGED <<clockVars, throttleVars, login_history, user_sessions,
                      workerVars, calls, webVars>>

\* POST /reset-password/<token>
ResetPassword(token, new_password) ==
    LET vp == validate_password(new_password)
        rp == ResetPasswordResult(users, token, new_password, now)
        c == [n |-> last.n + 1, op |-> "reset_password", token |-> token,
              password |-> new_password, status |-> 200]
    IN /\ IF ~vp.is_valid
          THEN /\ last' = c @@ [success |-> FALSE, body |-> vp.error]
               /\ UNCHANGED users
          ELSE /\ users' = rp.users
               /\ last' = c @@ (IF rp.ret
                                THEN [success |-> TRUE,
                                      body |-> "Password updated successfully."]
                                ELSE [success |-> FALSE,
                                      body |-> "Invalid or expired reset token."])
       /\ UNCHANGED <<clockVars, throttleVars, login_history, user_sessions,
                      workerVars, calls, webVars>>

----------------------------------------------------------------------------
(* The clock *)

\* Calls completed or in flight: the budget of a run.
Started ==
    Len(calls) + Cardinality({q \in Procs : pc[q] # "idle"})

Tick(d) ==
    /\ now' = now + d
    /\ ticks' = ticks + 1
    /\ UNCHANGED <<throttleVars, userVars, user_sessions, workerVars, calls, last, webVars>>

----------------------------------------------------------------------------
(* Initial values shared by the specifications *)

InitIdle ==
    /\ now = 0
    /\ ticks = 0
    /\ pc = [p \in Procs |-> "idle"]
    /\ loc = [p \in Procs |-> NULL]
    /\ calls = <<>>
    /\ last = [n |-> 0, op |-> "none"]
    /\ cookie = NULL
    /\ password_history = <<>>

InitNoThrottle ==
    /\ throttle_rules = [e \in Endpoints |-> NULL]
    /\ throttle_log = <<>>

InitNoUsers ==
    /\ users = <<>>
    /\ login_history = <<>>

InitNoSessions ==
    user_sessions = <<>>

----------------------------------------------------------------------------
(* Throttle, sequential callers, the rule (5, 60 s) on "login" *)

InitThrottle60 ==
    /\ InitIdle /\ InitNoUsers /\ InitNoSessions
    /\ throttle_rules = [e \in Endpoints |->
                            IF e = "login" THEN Some(Rule60) ELSE NULL]
    /\ throttle_log = <<>>

NextThrottle60 ==
    \/ Started < MaxCalls60 /\ CheckRateLimit("ip1", "login")
    \/ \E d \in {1, Rule60.time_window - 1} : ticks < MaxTicks /\ Tick(d)

SpecThrottle60 ==
    InitThrottle60 /\ [][NextThrottle60]_vars

----------------------------------------------------------------------------
(* Throttle, sequential callers, any small rule on "login", two clients *)

InitThrottle ==
    /\ InitIdle /\ InitNoUsers /\ InitNoSessions
    /\ \E n \in 1..MaxN : \E w \in 2..MaxW :
          throttle_rules = [e \in Endpoints |->
                               IF e = "login" THEN Some(Rule(n, w)) ELSE NULL]
    /\ throttle_log = <<>>

NextThrottle ==
    \/ \E ip \in IPs : \E e \in {"login", "home"} :
          Started < MaxCalls /\ CheckRateLimit(ip, e)
    \/ ticks < MaxTicks /\ Tick(1)

SpecThrottle ==
    InitThrottle /\ [][NextThrottle]_vars

----------------------------------------------------------------------------
(* Throttle, concurrent callers *)

NextThrottleConc ==
    \/ \E p \in Procs : \E e \in {"login", "home"} :
          Started < MaxCalls /\ CrlSelectRule(p, "ip1", e)
    \/ \E p \in Procs : CrlCount(p)
    \/ \E p \in Procs : CrlInsert(p)
    \/ \E p \in Procs : CrlCommit(p)
    \/ ticks < MaxTicks /\ Tick(1)

SpecThrottleConc ==
    InitThrottle /\ [][NextThrottleConc]_vars

----------------------------------------------------------------------------
(* verify_user, sequential callers, one account *)

\* alice's row as registration leaves it; is_active is the deployment's choice
InitAlice(active) ==
    users = <<UserRow(UnameAlice, "alice@example.org", PwStrong, active,
                      "tokA", 0)>>

InitVerify ==
    /\ InitIdle /\ InitNoThrottle /\ InitNoSessions
    /\ \E active \in BOOLEAN : InitAlice(active)
    /\ login_history = <<>>

NextVerify ==
    \/ \E pw \in {PwStrong, PwWrong} :
          Started < MaxCallsV /\ VerifyUser(UnameAlice, pw, "ip1", "ua1")
    \/ \E d \in {1, LockSeconds - 1} : ticks < MaxTicksV /\ Tick(d)

SpecVerify ==
    InitVerify /\ [][NextVerify]_vars

----------------------------------------------------------------------------
(* verify_user, concurrent callers, one account that already has          *)
(* LockoutThreshold - 1 failed attempts                                    *)

RECURSIVE AfterWrongLogins(_, _)
\* The users table after n sequential wrong-password verify_user calls at 0.
AfterWrongLogins(us, n) ==
    IF n = 0 THEN us
    ELSE AfterWrongLogins(
             [us EXCEPT ![1] = ApplyUpdate(@,
                 VerifyBranch(us, UnameAlice, PwWrong, 0).update, 0)], n - 1)

InitVerifyConc ==
    /\ InitIdle /\ InitNoThrottle /\ InitNoSessions
    /\ users = AfterWrongLogins(
                  <<UserRow(UnameAlice, "alice@example.org", PwStrong, TRUE,
                            "tokA", 0)>>, LockoutThreshold - 1)
    /\ login_history =
          [i \in 1..(LockoutThreshold - 1) |->
              HistoryRow(Some(1), "ip1", "ua1", FALSE, Some("Invalid password"))]

NextVerifyConc ==
    \/ \E p \in Procs : \E pw \in {PwStrong, PwWrong} :
          Started < MaxCalls /\ VuSelect(p, UnameAlice, pw, "ip1", "ua1")
    \/ \E p \in Procs : VuUpdate(p)
    \/ \E p \in Procs : VuLog(p)
    \/ \E p \in Procs : VuCommit(p)
    \/ ticks < MaxTicksV /\ Tick(LockSeconds)

SpecVerifyConc ==
    InitVerifyConc /\ [][NextVerifyConc]_vars

----------------------------------------------------------------------------
(* Sessions *)

InitSession ==
    /\ InitIdle /\ InitNoThrottle /\ InitNoSessions
    /\ InitAlice(TRUE)
    /\ login_history = <<>>

NextSession ==
    \/ \E ip \in IPs : \E ua \in UAs :
          last.n < MaxCalls /\ CreateSession(1, ip, ua)
    \/ \E token \in Tokens : \E ip \in IPs : \E ua \in UAs :
          last.n < MaxCalls /\ VerifySession(token, ip, ua)
    \/ \E token \in Tokens : last.n < MaxCalls /\ InvalidateSession(token)
    \/ \E d \in {1, SessionTTL - 1} : ticks < MaxTicks /\ Tick(d)

SpecSession ==
    InitSession /\ [][NextSession]_vars

----------------------------------------------------------------------------
(* activate_user, one account created inactive *)

InitActivate ==
    /\ InitIdle /\ InitNoThrottle /\ InitNoSessions
    /\ \E active \in BOOLEAN : InitAlice(active)
    /\ login_history = <<>>

NextActivate ==
    \/ \E token \in {"tokA", "tokB"} :
          Started < MaxCallsV /\ ActivateUser(token)
    \/ \E d \in {1, ActivationTTL} : ticks < MaxTicks /\ Tick(d)

SpecActivate ==
    InitActivate /\ [][NextActivate]_vars

----------------------------------------------------------------------------
(* The auth handlers, one browser *)

InitWeb ==
    /\ InitIdle /\ InitNoSessions
    /\ \E active \in BOOLEAN : InitAlice(active)
    /\ login_history = <<>>
    /\ throttle_rules = [e \in Endpoints |->
                            IF e = "login" THEN Some(Rule(MaxN, MaxW))
                            ELSE NULL]
    /\ throttle_log = <<>>

NextWeb ==
    \/ \E username \in {UnameAlice, UnameBob} :
       \E password \in {PwStrong, PwWrong} :
          last.n < MaxReq /\ Login("ip1", "ua1", username, password)
    \/ \E ip \in IPs : \E current \in {PwStrong, PwWrong} :
       \E new \in {PwWeak, PwStrong2} :
          last.n < MaxReq /\ ChangePassword(ip, "ua1", current, new, PwWeak)
    \/ \E username \in {UnameAlice, UnameBob} :
       \E email \in {"bob@example.org", "bob.example.org"} :
       \E password \in {PwStrong, PwNoSymbol} :
          last.n < MaxReq /\ Register("ip1", username, email, password)
    \/ ticks < MaxTicksV /\ Tick(LockSeconds)

SpecWeb ==
    InitWeb /\ [][NextWeb]_vars

----------------------------------------------------------------------------
(* Sessions, concurrent callers *)

NextSessionConc ==
    \/ \E p \in Procs :
          Started < MaxCalls
          /\ SsBegin(p, "create_session", 1, "t1", "ip1", "ua1")
    \/ \E p \in Procs :
          Started < MaxCalls
          /\ SsBegin(p, "verify_session", 1, "t1", "ip1", "ua1")
    \/ \E p \in Procs :
          Started < MaxCalls
          /\ SsBegin(p, "invalidate_session", 1, "t1", NULL, NULL)
    \/ \E p \in Procs : SsStmt(p)
    \/ \E p \in Procs : SsCommit(p)
    \/ ticks < MaxTicksV /\ Tick(SessionTTL)

SpecSessionConc ==
    InitSession /\ [][NextSessionConc]_vars

----------------------------------------------------------------------------
(* Throttle, sequential callers, a store that can fail *)

InitThrottleFaults ==
    /\ InitIdle /\ InitNoUsers /\ InitNoSessions
    /\ throttle_rules = [e \in Endpoints |->
                            IF e = "login" THEN Some(Rule(MaxN, MaxW))
                            ELSE NULL]
    /\ throttle_log = <<>>

NextThrottleFaults ==
    \/ \E ip \in IPs : \E e \in {"login", "home"} :
       \E fail \in {"none", "count", "commit"} :
          last.n < MaxCalls /\ CheckRateLimitF(ip, e, fail)
    \/ \E e \in {"login", "home"} : \E third \in {0, 2} :
       \E fail \in {"none", "connect"} :
          last.n < MaxCalls /\ GetRateLimitStatus("ip1", e, third, fail)
    \/ ticks < MaxTicks /\ Tick(1)

SpecThrottleFaults ==
    InitThrottleFaults /\ [][NextThrottleFaults]_vars

----------------------------------------------------------------------------
(* Accounts and sessions, sequential callers, a store that can fail *)

NextCoreFaults ==
    \/ \E password \in {PwStrong, PwWrong} :
       \E fail \in {"none", "select", "log", "commit"} :
          last.n < MaxCalls
          /\ VerifyUserF(UnameAlice, password, "ip1", "ua1", fail)
    \/ \E fail \in {"none", "insert", "commit"} :
          last.n < MaxCalls /\ CreateSessionF(1, "ip1", "ua1", fail)
    \/ \E fail \in {"none", "select"} :
          last.n < MaxCalls /\ VerifySessionF("t1", "ip1", "ua1", fail)
    \/ \E fail \in {"none", "update", "commit"} :
          last.n < MaxCalls /\ InvalidateSessionF("t1", fail)
    \/ \E fail \in {"none", "update", "commit"} :
          last.n < MaxCalls /\ ActivateUserF("tokA", fail)
    \/ ticks < MaxTicksV /\ Tick(LockSeconds)

SpecCoreFaults ==
    InitActivate /\ [][NextCoreFaults]_vars

----------------------------------------------------------------------------
(* Throttle log and its periodic cleanup, sequential callers *)

NextThrottleCleanup ==
    \/ \E ip \in IPs : \E fail \in {"none", "insert"} :
          last.n < MaxCalls /\ CheckRateLimitF(ip, "login", fail)
    \/ \E fail \in {"none", "delete", "commit"} :
          last.n < MaxCalls /\ ClearExpiredLogs(fail)
    \/ \E d \in {1, RetentionSeconds - 1} : ticks < MaxTicks /\ Tick(d)

SpecThrottleCleanup ==
    InitThrottleFaults /\ [][NextThrottleCleanup]_vars

----------------------------------------------------------------------------
(* Sessions of two accounts *)

InitSessionUsers ==
    /\ InitIdle /\ InitNoThrottle /\ InitNoSessions
    /\ users = <<UserRow(UnameAlice, "alice@example.org", PwStrong, TRUE,
                         "tokA", 0),
                 UserRow(UnameBob, "bob@example.org", PwStrong, TRUE,
                         "tokB", 0)>>
    /\ login_history = <<>>

NextSessionUsers ==
    \/ \E user_id \in DOMAIN users : \E ip \in IPs :
          last.n < MaxCalls /\ CreateSession(user_id, ip, "ua1")
    \/ \E token \in Tokens : \E ip \in IPs :
          last.n < MaxCalls /\ VerifySession(token, ip, "ua1")
    \/ \E token \in Tokens : last.n < MaxCalls /\ InvalidateSession(token)
    \/ \E d \in {1, SessionTTL - 1} : ticks < MaxTicks /\ Tick(d)

SpecSessionUsers ==
    InitSessionUsers /\ [][NextSessionUsers]_vars

----------------------------------------------------------------------------
(* Pages behind login_required, one browser that keeps its cookies *)

NextWebSession ==
    \/ \E password \in {PwStrong, PwWrong} :
          last.n < MaxCalls /\ Login("ip1", "ua1", UnameAlice, password)
    \/ \E ip \in IPs : \E ua \in UAs :
          last.n < MaxCalls /\ ProfileSettings(ip, ua)
    \/ last.n < MaxCalls /\ Logout("ip1", "ua1")
    \/ \E i \in 1..Cardinality(Tokens) : PresentCookie(i)
    \/ \E d \in {1, SessionTTL - 1} : ticks < MaxTicksV /\ Tick(d)

SpecWebSession ==
    InitWeb /\ [][NextWebSession]_vars

----------------------------------------------------------------------------
(* Password reset, one account *)

InitReset ==
    /\ InitIdle /\ InitNoSessions
    /\ users = <<UserRow(UnameAlice, "alice@example.org", PwStrong, TRUE,
                         "tokA", 0) @@ NoReset>>
    /\ login_history = <<>>
    /\ throttle_rules = [e \in Endpoints \cup {"password_reset"} |->
                            IF e = "password_reset"
                            THEN Some(Rule(MaxN, MaxW)) ELSE NULL]
    /\ throttle_log = <<>>

NextReset ==
    \/ \E email \in {"alice@example.org", "bob@example.org"} :
          last.n < MaxCalls /\ RequestPasswordReset("ip1", email)
    \/ \E token \in ResetTokens : \E password \in {PwWeak, PwStrong2} :
          last.n < MaxCalls /\ ResetPassword(token, password)
    \/ \E d \in {1, ResetTTL} : ticks < MaxTicks /\ Tick(d)

SpecReset ==
    InitReset /\ [][NextReset]_vars

----------------------------------------------------------------------------
(* Registration and profile updates, concurrent callers *)

UnameCarol ==
    <<"c", "a", "r", "o", "l">>

NextUsersConc ==
    \/ \E p \in Procs : \E username \in {UnameBob, UnameCarol} :
          Started < MaxReq /\ CuSelect(p, username, "bob@example.org", PwStrong)
    \/ \E p \in Procs : CuInsert(p)
    \/ \E p \in Procs : CuReturn(p)
    \/ \E p \in Procs : \E user_id \in 1..2 :
       \E name \in {<<UnameBob, "bob@example.org">>,
                    <<UnameCarol, "carol@example.org">>} :
          Started < MaxReq /\ UpSelect(p, user_id, name[1], name[2])
    \/ \E p \in Procs : UpUpdate(p)
    \/ \E p \in Procs : UpReturn(p)

SpecUsersConc ==
    InitSession /\ [][NextUsersConc]_vars

----------------------------------------------------------------------------
(* verify_user, sequential callers, known and unknown usernames, an       *)
(* account one wrong password away from its lock                          *)

InitVerifyNames ==
    /\ InitIdle /\ InitNoThrottle /\ InitNoSessions
    /\ \E active \in BOOLEAN :
          users = AfterWrongLogins(
                     <<UserRow(UnameAlice, "alice@example.org", PwStrong,
                               active, "tokA", 0)>>, LockoutThreshold - 1)
    /\ login_history =
          [i \in 1..(LockoutThreshold - 1) |->
              HistoryRow(Some(1), "ip1", "ua1", FALSE, Some("Invalid password"))]

NextVerifyNames ==
    \/ \E username \in {UnameAlice, UnameBob} :
       \E pw \in {PwStrong, PwWrong} :
          Started < MaxCalls /\ VerifyUser(username, pw, "ip1", "ua1")
    \/ \E d \in {1, LockSeconds - 1} : ticks < MaxTicksV /\ Tick(d)

SpecVerifyNames ==
    InitVerifyNames /\ [][NextVerifyNames]_vars

----------------------------------------------------------------------------
(* Claims about the throttle *)

\* The completed check_rate_limit calls of one (client, endpoint), in order.
PairCalls(ip, endpoint) ==
    LET Test(c) == c.op = "check_rate_limit" /\ c.ip = ip /\ c.endpoint = endpoint
    IN SelectSeq(calls, Test)

\* The throttle_log rows of one (client, endpoint), in commit order.
PairLog(ip, endpoint) ==
    LET Test(r) == r.ip_address = ip /\ r.endpoint = endpoint
    IN SelectSeq(throttle_log, Test)

Metered ==
    {e \in Endpoints : throttle_rules[e] # NULL}

RuleOf(e) ==
    Val(throttle_rules[e])

\* C1 (as claimed): under concurrent check_rate_limit calls for one (client,
\* endpoint), the calls that returned true with a timestamp inside any one
\* trailing time_window never number more than max_attempts.  It is enough to
\* look at the windows that end at an admitted call's timestamp.
Cex_C1 ==
    \A ip \in IPs : \A e \in Metered :
        LET M == PairCalls(ip, e) IN
        \A i \in DOMAIN M :
            M[i].ret =>
                Cardinality({j \in DOMAIN M :
                    /\ M[j].ret
                    /\ M[j].at > M[i].at - RuleOf(e).time_window
                    /\ M[j].at <= M[i].at}) <= RuleOf(e).max_attempts

\* Six calls in a row from index a: five admitted, the sixth blocked, all
\* inside one span shorter than the window.
FiveThenBlocked(M, a, w) ==
    /\ a + 6 <= Len(M)
    /\ \A k \in 0..4 : M[a + k].ret
    /\ ~M[a + 5].ret
    /\ M[a + 5].at - M[a].at < w

\* C4 (as claimed): rule (5, 60 s); after 5 admitted calls and a blocked 6th
\* inside the same 60 s span, the next call, made once 60 s have elapsed past
\* the oldest counted attempt, returns true.
Cex_C4 ==
    LET M == PairCalls("ip1", "login") IN
    \A a \in DOMAIN M :
        (FiveThenBlocked(M, a, 60) /\ M[a + 6].at >= M[a].at + 60)
            => M[a + 6].ret

\* C4 (amended): rule (5, 60 s); after 5 admitted calls and a blocked 6th
\* inside the same 60 s span, the next call returns true when it is made once
\* 60 s have elapsed past the second-oldest of those six logged attempts: the
\* blocked call is logged and counted like the admitted ones.
Thm_C4 ==
    LET M == PairCalls("ip1", "login") IN
    \A a \in DOMAIN M :
        (FiveThenBlocked(M, a, 60) /\ M[a + 6].at >= M[a + 1].at + 60)
            => M[a + 6].ret

\* C4 witness: such a seventh call was made, later than the first attempt by
\* more than the window, and admitted.
Wit_C4 ==
    LET M == PairCalls("ip1", "login") IN
    \E a \in DOMAIN M :
        /\ FiveThenBlocked(M, a, 60)
        /\ M[a + 1].at > M[a].at
        /\ M[a + 6].at >= M[a + 1].at + 60
        /\ M[a + 6].ret

\* No earlier call of the pair lies in the window that ends at call a.
FreshAt(M, a, w) ==
    \A b \in 1..(a - 1) : ~(M[b].at > M[a].at - w)

\* C5: sequential callers, rule (N, W).  Starting from no entries in the
\* window, the first N calls inside a span shorter than W return true and the
\* (N+1)-th inside that span returns false; every call is blocked iff the rows
\* logged before it for (client, endpoint) in its trailing W seconds number
\* >= N, and each call leaves one row carrying that decision.
Thm_C5 ==
    \A ip \in IPs : \A e \in Metered :
        LET M == PairCalls(ip, e)
            L == PairLog(ip, e)
            n == RuleOf(e).max_attempts
            w == RuleOf(e).time_window
        IN /\ Len(L) = Len(M)
           /\ \A i \in DOMAIN M :
                /\ L[i].timestamp = M[i].at
                /\ L[i].is_blocked = ~M[i].ret
                /\ M[i].ret =
                     ~(Cardinality({j \in 1..(i - 1) :
                          L[j].timestamp > M[i].at - w}) >= n)
           /\ \A a \in DOMAIN M :
                FreshAt(M, a, w) =>
                    /\ \A k \in 0..(n - 1) :
                          (a + k <= Len(M) /\ M[a + k].at - M[a].at < w)
                              => M[a + k].ret
                    /\ (a + n <= Len(M) /\ M[a + n].at - M[a].at < w)
                              => ~M[a + n].ret

\* C5 witness: N calls admitted from a fresh window and the (N+1)-th blocked,
\* while another client was calling too.
Wit_C5 ==
    \E ip \in IPs : \E e \in Metered :
        LET M == PairCalls(ip, e)
            n == RuleOf(e).max_attempts
            w == RuleOf(e).time_window
        IN /\ n = MaxN
           /\ \E a \in DOMAIN M :
                /\ FreshAt(M, a, w)
                /\ a + n <= Len(M)
                /\ M[a + n].at - M[a].at < w
                /\ M[a + n].at > M[a].at
                /\ \A k \in 0..(n - 1) : M[a + k].ret
                /\ ~M[a + n].ret
           /\ \E other \in IPs \ {ip} : Len(PairCalls(other, e)) > 0

----------------------------------------------------------------------------
(* Claims about verify_user *)

\* The completed verify_user calls for one username, in order.
VerifyCalls(username) ==
    LET Test(c) == c.op = "verify_user" /\ c.username = username
    IN SelectSeq(calls, Test)

\* The call carried a password other than the account's.
WrongPassword(c) ==
    \A u \in DOMAIN users :
        users[u].username = c.username => ~checkpw(c.password, users[u].password_hash)

\* Six calls in a row from index a, the first five with a wrong password, the
\* first of them made while the account was not locked, and all six made
\* within one lock window (less than 15 minutes from the first to the sixth).
FiveWrongThenOne(V, a) ==
    /\ a + 5 <= Len(V)
    /\ \A k \in 0..4 : WrongPassword(V[a + k])
    /\ V[a].reason # Some("Account locked")
    /\ V[a + 5].at - V[a].at < LockSeconds

\* C2: sequential callers.  After 5 consecutive wrong-password verify_user
\* calls on an existing account, the 6th call inside the lock window is
\* refused as "Account locked" whatever its password (it returns no account),
\* and no step increments failed_login_attempts of an account whose
\* account_locked_until is later than now.
Thm_C2 ==
    /\ [](LET V == VerifyCalls(UnameAlice) IN
          \A a \in DOMAIN V :
              FiveWrongThenOne(V, a) =>
                  /\ V[a + 5].ret = NULL
                  /\ V[a + 5].reason = Some("Account locked"))
    /\ [][\A u \in DOMAIN users :
              IsLocked(users[u], now) =>
                  users'[u].failed_login_attempts
                      = users[u].failed_login_attempts]_vars

\* C2 witness: five wrong passwords, then the correct one some time later
\* and still inside the lock window; it was refused and the counter stayed 5.
Wit_C2 ==
    LET V == VerifyCalls(UnameAlice) IN
    \E a \in DOMAIN V :
        /\ FiveWrongThenOne(V, a)
        /\ V[a + 5].password = PwStrong
        /\ V[a + 5].at > V[a + 4].at
        /\ V[a + 5].reason = Some("Account locked")
        /\ users[1].failed_login_attempts = LockoutThreshold
        /\ IsLocked(users[1], now)

\* C3 (as claimed): with k concurrent verify_user callers on one username,
\* failed_login_attempts never exceeds the lockout threshold 5 by more than
\* k - 1.
Cex_C3 ==
    \A u \in DOMAIN users :
        users[u].failed_login_attempts
            <= LockoutThreshold + (Cardinality(Procs) - 1)

----------------------------------------------------------------------------
(* Claims about sessions *)

\* This step is a completed session call named op.
SessStep(op) ==
    /\ last'.n = last.n + 1
    /\ last'.op = op

\* The sessions holding a token.
RowsOf(sessions, token) ==
    {i \in DOMAIN sessions : sessions[i].session_token = token}

\* C6 (as claimed): invalidate_session(token) sets is_active = false for the
\* matching session and returns true iff a row existed to invalidate; called
\* on a token whose session is already invalidated it returns false and
\* changes nothing.
Cex_C6 ==
    [][SessStep("invalidate_session") =>
          LET rows == RowsOf(user_sessions, last'.token) IN
          /\ \A i \in rows : ~user_sessions'[i].is_active
          /\ (rows = {}) => (last'.ret = FALSE)
          /\ (\E i \in rows : user_sessions[i].is_active) => (last'.ret = TRUE)
          /\ (rows # {} /\ \A i \in rows : ~user_sessions[i].is_active) =>
                (last'.ret = FALSE /\ user_sessions' = user_sessions)]_vars

\* The session verify_session was asked about, by the spec's own words: same
\* token, active, not expired at the time of the call, same ip, same agent.
ValidFor(row, c) ==
    /\ row.session_token = c.token
    /\ row.is_active
    /\ c.at < row.expires_at
    /\ row.ip_address = c.ip
    /\ row.user_agent = c.ua

\* C9: verify_session(token, ip, user_agent) returns the owning user_id iff a
\* session with that token exists, is active, is not expired and was created
\* with exactly that ip and that user agent (so a session of (ip1, ua1) fails
\* with (ip2, ua1) and with (ip1, ua2)); and verify_session changes no session.
Thm_C9 ==
    /\ [](last.op = "verify_session" =>
            /\ (last.ret # NULL) <=>
                   (\E i \in DOMAIN user_sessions : ValidFor(user_sessions[i], last))
            /\ \A i \in DOMAIN user_sessions :
                   ValidFor(user_sessions[i], last) =>
                       last.ret = Some(user_sessions[i].user_id))
    /\ [][SessStep("verify_session") => user_sessions' = user_sessions]_vars

\* C9 witness: a live session of (ip1, ua1) was presented with the right
\* token and ip but another user agent, and was refused.
Wit_C9 ==
    /\ last.op = "verify_session"
    /\ last.ret = NULL
    /\ \E i \in DOMAIN user_sessions :
          /\ user_sessions[i].session_token = last.token
          /\ user_sessions[i].is_active
          /\ last.at < user_sessions[i].expires_at
          /\ user_sessions[i].ip_address = "ip1" /\ last.ip = "ip1"
          /\ user_sessions[i].user_agent = "ua1" /\ last.ua = "ua2"

\* The session a call presented the right token and fingerprint for, still
\* active.
RightFingerprint(row, c) ==
    /\ row.session_token = c.token
    /\ row.is_active
    /\ row.ip_address = c.ip
    /\ row.user_agent = c.ua

\* C10: a session's expires_at is its creation time plus 24 hours; with the
\* right fingerprint verify_session succeeds strictly before expires_at and
\* fails at expires_at and after it; no step changes a session's expires_at.
Thm_C10 ==
    /\ [](last.op = "verify_session" =>
            \A i \in DOMAIN user_sessions :
                RightFingerprint(user_sessions[i], last) =>
                    ((last.ret # NULL) <=> (last.at < user_sessions[i].expires_at)))
    /\ [][/\ SessStep("create_session") =>
                Last(user_sessions').expires_at = now + 24 * 3600
          /\ \A i \in DOMAIN user_sessions :
                user_sessions'[i].expires_at = user_sessions[i].expires_at]_vars

\* C10 witness: the right fingerprint, one second after expires_at, refused.
Wit_C10 ==
    /\ last.op = "verify_session"
    /\ last.ret = NULL
    /\ \E i \in DOMAIN user_sessions :
          /\ RightFingerprint(user_sessions[i], last)
          /\ last.at = user_sessions[i].expires_at + 1

----------------------------------------------------------------------------
(* Claims about activation and the password policy *)

\* The completed activate_user calls, in order.
ActivateCalls ==
    SelectSeq(calls, LAMBDA c : c.op = "activate_user")

\* C7, as the specification states it: once activate_user(token) has
\* activated an inactive account, every later activate_user with that same
\* token returns true; and activate_user with a token older than 24 hours on
\* an inactive account returns false and leaves the account inactive.
Cex_C7 ==
    LET A == ActivateCalls IN
    /\ \A i \in DOMAIN A : \A j \in DOMAIN A :
          (i < j /\ A[i].branch = "activated" /\ A[j].token = A[i].token)
              => A[j].ret
    /\ (A # <<>> /\ Last(A).branch = "expired")
          => (~Last(A).ret /\ \A u \in DOMAIN users : ~users[u].is_active)

\* C8, as the specification states it: every password hash in users or in
\* password_history was made from a password that validate_password accepts.
Cex_C8 ==
    /\ \A u \in DOMAIN users :
          validate_password(users[u].password_hash.of).is_valid
    /\ \A i \in DOMAIN password_history :
          validate_password(password_history[i].password_hash.of).is_valid

----------------------------------------------------------------------------
(* Claims about concurrent sessions, unlocking and the login handler *)

\* An invalidate_session(token) is under way.
Invalidating(token) ==
    \E q \in Procs :
        /\ loc[q] # NULL
        /\ Val(loc[q]).op = "invalidate_session"
        /\ Val(loc[q]).token = token

\* No invalidate_session(token) had been entered when call j returned.
NotInvalidatedBefore(token, j) ==
    /\ ~Invalidating(token)
    /\ \A k \in DOMAIN calls :
          (calls[k].op = "invalidate_session" /\ calls[k].token = token)
              => calls[k].began >= j

\* C11: a verify_session with the original fingerprint that is entered after
\* create_session returned the token, runs before expires_at and returns
\* before any invalidate_session of the token is entered, returns the owner;
\* a verify_session entered after invalidate_session(token) returned true
\* returns none, whatever was called in between.
Thm_C11 ==
    \A i \in DOMAIN calls : \A j \in DOMAIN calls :
        (calls[j].op = "verify_session" /\ calls[j].began >= i
         /\ calls[j].token = calls[i].token)
        => /\ ( /\ calls[i].op = "create_session"
               /\ calls[j].ip = calls[i].ip
               /\ calls[j].ua = calls[i].ua
               /\ Val(calls[j].stmt_at) < Val(calls[i].at) + 24 * 3600
               /\ NotInvalidatedBefore(calls[i].token, j) )
              => calls[j].ret = Some(calls[i].user_id)
           /\ ( /\ calls[i].op = "invalidate_session"
               /\ calls[i].ret = Some(TRUE) )
              => calls[j].ret = NULL

\* C11 witness: a session was created, then verified with success, then
\* invalidated, then verified again without success.
Wit_C11 ==
    \E i \in DOMAIN calls : \E j \in DOMAIN calls :
    \E k \in DOMAIN calls : \E l \in DOMAIN calls :
        /\ i < j /\ j < k /\ k < l
        /\ calls[i].op = "create_session" /\ calls[i].token = "t1"
        /\ calls[j].op = "verify_session" /\ calls[j].began >= i
        /\ calls[j].ret = Some(1)
        /\ calls[k].op = "invalidate_session" /\ calls[k].ret = Some(TRUE)
        /\ calls[k].began >= j
        /\ calls[l].op = "verify_session" /\ calls[l].began >= k
        /\ calls[l].ip = "ip1" /\ calls[l].ret = NULL

\* This step is a completed verify_user call.
VerifyStep ==
    /\ Len(calls') = Len(calls) + 1
    /\ Last(calls').op = "verify_user"

\* The lock of the row has run out (now >= account_locked_until) or was
\* never set.
LockOver(row, t) ==
    row.account_locked_until = NULL \/ t >= Val(row.account_locked_until)

\* C12: a verify_user call with the correct password on an active account
\* whose lock has expired (now >= account_locked_until) or that has no lock
\* succeeds: it sets failed_login_attempts to 0, clears account_locked_until,
\* sets last_login to now, logs a successful entry and returns the account.
Thm_C12 ==
    [][\A u \in DOMAIN users :
          ( /\ VerifyStep
            /\ Last(calls').username = users[u].username
            /\ checkpw(Last(calls').password, users[u].password_hash)
            /\ users[u].is_active
            /\ LockOver(users[u], now) )
          => /\ users'[u].failed_login_attempts = 0
             /\ users'[u].account_locked_until = NULL
             /\ users'[u].last_login = Some(now)
             /\ Last(calls').ret = Some(UserDict(u, users[u]))
             /\ Last(login_history').login_successful
             /\ Last(login_history').user_id = Some(u)]_vars

\* C12 witness: five wrong passwords locked the account, and the correct
\* password given exactly when the lock ran out has been accepted.
Wit_C12 ==
    LET V == VerifyCalls(UnameAlice) IN
    /\ Len(V) >= 6
    /\ \A k \in 1..5 : V[Len(V) - k].reason = Some("Invalid password")
    /\ V[Len(V) - 1].at + LockSeconds = Last(V).at
    /\ Last(V).ret # NULL
    /\ Val(Last(V).ret).failed_login_attempts = LockoutThreshold
    /\ users[1].failed_login_attempts = 0
    /\ users[1].account_locked_until = NULL
    /\ users[1].last_login = Some(now)

\* This step is a completed request to the handler op.
HandlerStep(op) ==
    /\ last'.n = last.n + 1
    /\ last'.op = op

\* This step is a login request in which verify_user found the password
\* right and the account not activated.
InactiveLogin ==
    /\ HandlerStep("login")
    /\ Len(login_history') = Len(login_history) + 1
    /\ Last(login_history').failure_reason = Some("Account not activated")

\* C13, as the specification states it: a login with the right password on an
\* unlocked account that is not active is answered with the 'verify your
\* email' message and not with 'Invalid credentials'; it logs "Account not
\* activated", creates no session and leaves the account row unchanged.
Cex_C13 ==
    [][InactiveLogin =>
          /\ last'.body = "Please verify your email address."
          /\ last'.body # "Invalid credentials"
          /\ user_sessions' = user_sessions
          /\ users' = users]_vars

\* No account has this username.
Unknown(username) ==
    \A u \in DOMAIN users : users[u].username # username

\* This step is a login request that verify_user refused for the reason given.
RefusedLogin(reason) ==
    /\ HandlerStep("login")
    /\ Len(login_history') = Len(login_history) + 1
    /\ Last(login_history').failure_reason = Some(reason)

\* C14: whatever the username and the password, verify_user returns for a
\* username that does not exist the same value as for an existing account
\* given a wrong password, and the login handler gives the same response in
\* both cases; the unknown-username case logs an entry with no user_id and
\* the reason "User not found" and changes no account.
Thm_C14 ==
    /\ [](\A unknown \in {UnameAlice, UnameBob} :
          \A pw \in {PwStrong, PwWrong, PwStrong2} :
          \A u \in DOMAIN users : \A wrong \in {PwStrong, PwWrong, PwStrong2} :
              (Unknown(unknown) /\ ~checkpw(wrong, users[u].password_hash))
              => VerifyBranch(users, unknown, pw, now).ret
                     = VerifyBranch(users, users[u].username, wrong, now).ret)
    /\ [][(RefusedLogin("User not found") \/ RefusedLogin("Invalid password"))
              => (last'.status = 200 /\ last'.body = "Invalid credentials")]_vars
    /\ [][RefusedLogin("User not found")
              => /\ Last(login_history').user_id = NULL
                 /\ users' = users
                 /\ user_sessions' = user_sessions]_vars

\* C14 witness: the last two requests were logins, one for a username that
\* does not exist and one with a wrong password for an account that does, and
\* the response now shown is the one both of them got.
Wit_C14 ==
    /\ Len(login_history) >= 2
    /\ login_history[Len(login_history) - 1].failure_reason
           = Some("User not found")
    /\ login_history[Len(login_history) - 1].user_id = NULL
    /\ Last(login_history).failure_reason = Some("Invalid password")
    /\ last.op = "login"
    /\ last.n = 2
    /\ last.body = "Invalid credentials"

\* This step appended one throttle_log row, with the decision given.
ThrottleDecided(is_blocked) ==
    /\ Len(throttle_log') = Len(throttle_log) + 1
    /\ Last(throttle_log').is_blocked = is_blocked

\* C15: in a login request the throttle check comes first, then the
\* credential check, then the session.  When check_rate_limit refuses, the
\* request is answered 429 with no login_history entry, no change to any
\* account and no session; a session is created only in a request in which
\* check_rate_limit admitted the client and verify_user returned the account
\* the session is for.
Thm_C15 ==
    [][HandlerStep("login") =>
          /\ ThrottleDecided(TRUE) =>
                /\ last'.status = 429
                /\ login_history' = login_history
                /\ users' = users
                /\ user_sessions' = user_sessions
                /\ cookie' = cookie
          /\ user_sessions' # user_sessions =>
                /\ ThrottleDecided(FALSE)
                /\ Len(login_history') = Len(login_history) + 1
                /\ Last(login_history').login_successful
                /\ Len(user_sessions') = Len(user_sessions) + 1
                /\ Some(Last(user_sessions').user_id)
                       = Last(login_history').user_id]_vars

\* C15 witness: two logins were admitted, one of them opened a session, and
\* the third, inside the window, has been refused by the throttle.
Wit_C15 ==
    /\ last.op = "login"
    /\ last.status = 429
    /\ Last(throttle_log).is_blocked
    /\ Len(throttle_log) = 3
    /\ Len(login_history) = 2
    /\ Len(user_sessions) = 1

\* This step is a completed activate_user call.
ActivateStep ==
    /\ Len(calls') = Len(calls) + 1
    /\ Last(calls').op = "activate_user"

\* The accounts that hold the token.
Holders(token) ==
    {u \in DOMAIN users : users[u].activation_token = Some(token)}

\* C16: activate_user(token) returns false and changes nothing when no
\* account holds the token; returns true and changes nothing when the holder
\* is already active; returns false and changes nothing when the holder is
\* inactive and the token is more than 24 hours old; otherwise it sets
\* is_active, clears activation_token and activation_token_created_at, leaves
\* every other column and row alone, and returns true.
Thm_C16 ==
    [][ActivateStep =>
          LET c == Last(calls') IN
          IF Holders(c.token) = {}
          THEN ~c.ret /\ users' = users
          ELSE \A u \in Holders(c.token) :
                  IF users[u].is_active
                  THEN c.ret /\ users' = users
                  ELSE IF now - Val(users[u].activation_token_created_at)
                              > 24 * 3600
                  THEN ~c.ret /\ users' = users
                  ELSE /\ c.ret
                       /\ users' = [users EXCEPT ![u] =
                              [@ EXCEPT !.is_active = TRUE,
                                        !.activation_token = NULL,
                                        !.activation_token_created_at = NULL]]
       ]_vars

\* C16 witness: a token nobody holds was refused, and the account's own
\* token, exactly 24 hours old, has just activated it.
Wit_C16 ==
    /\ Len(calls) >= 2
    /\ calls[1].token = "tokB" /\ ~calls[1].ret
    /\ Last(calls).token = "tokA" /\ Last(calls).ret
    /\ Last(calls).at = 24 * 3600
    /\ \A k \in 1..(Len(calls) - 1) : calls[k].token = "tokB"
    /\ users[1].is_active
    /\ users[1].activation_token = NULL
    /\ users[1].activation_token_created_at = NULL

----------------------------------------------------------------------------
(* Claims about storage failures and unmetered endpoints *)

\* C17: check_rate_limit fails closed.  Whenever one of its store operations
\* raises (connect, rule lookup, count, insert or commit), the call returns
\* false, on endpoints with a rule and on endpoints without one.
Thm_C17 ==
    (last.op = "check_rate_limit" /\ last.failed) => ~last.ret

\* C17 witness: the store failed during a call, from a client with nothing
\* logged, to an endpoint without a rule; the call was refused.
Wit_C17 ==
    /\ last.op = "check_rate_limit" /\ last.failed
    /\ last.endpoint = "home" /\ ~last.ret
    /\ throttle_log = <<>>

\* C19, as the specification states it: a get_rate_limit_status call that
\* ran on a healthy store never returns the value the call returns when the
\* store fails.
Cex_C19 ==
    (last.op = "get_rate_limit_status" /\ ~last.failed)
        => last.ret # StatusOnFailure

\* This step is a completed call on a healthy store for an endpoint without
\* a rule.
UnmeteredStep(op) ==
    /\ last'.n = last.n + 1
    /\ last'.op = op
    /\ ~last'.failed
    /\ throttle_rules[last'.endpoint] = NULL

\* C20: for an endpoint without a rule (and a healthy store),
\* check_rate_limit returns true whoever calls and however often and appends
\* nothing to throttle_log, and get_rate_limit_status returns (-1, -1) and
\* changes nothing.
Thm_C20 ==
    [][/\ UnmeteredStep("check_rate_limit") =>
             (last'.ret /\ throttle_log' = throttle_log)
       /\ UnmeteredStep("get_rate_limit_status") =>
             (last'.ret = <<-1, -1>> /\ throttle_log' = throttle_log)]_vars

\* C20 witness: a client that the rule on "login" has just blocked was
\* admitted on "home", this being the fourth call, and nothing was logged
\* for "home".
Wit_C20 ==
    /\ last.n = 4
    /\ last.op = "check_rate_limit" /\ last.endpoint = "home"
    /\ ~last.failed /\ last.ret
    /\ Len(throttle_log) = 3
    /\ Last(throttle_log).is_blocked
    /\ Last(throttle_log).ip_address = last.ip
    /\ PairLog(last.ip, "home") = <<>>

\* This step is a completed call of op during which a store operation raised.
FailedStep(op) ==
    /\ last'.n = last.n + 1
    /\ last'.op = op
    /\ last'.failed

----------------------------------------------------------------------------
(* Claims about get_rate_limit_status, clear_expired_logs and sessions *)

\* This step is a completed get_rate_limit_status call on a healthy store
\* for an endpoint with a rule.
StatusStep ==
    /\ last'.n = last.n + 1
    /\ last'.op = "get_rate_limit_status"
    /\ ~last'.failed
    /\ throttle_rules[last'.endpoint] # NULL

\* The throttle_log rows of (ip, endpoint) inside the trailing time_window
\* of the instant t3 (in thirds of a second).
TrailingRows(ip, endpoint, t3) ==
    {i \in DOMAIN throttle_log :
        /\ throttle_log[i].ip_address = ip
        /\ throttle_log[i].endpoint = endpoint
        /\ 3 * throttle_log[i].timestamp > t3 - 3 * RuleOf(endpoint).time_window}

\* C21: for a metered endpoint get_rate_limit_status returns
\* remaining_attempts = max(0, max_attempts - the number of entries of
\* (client, endpoint) in the trailing time_window) and seconds_until_reset =
\* max(0, time_window - the whole seconds elapsed since the oldest of those
\* entries), the whole seconds being within a third of a second of the
\* elapsed time and 0 when there is no entry; neither is negative; and the
\* call leaves throttle_log as it was, so that every check_rate_limit
\* decides afterwards as it would have decided before.
Thm_C21 ==
    [][StatusStep =>
         LET c == last'
             t3 == 3 * c.at + c.third
             rows == TrailingRows(c.ip, c.endpoint, t3)
             rule == RuleOf(c.endpoint)
         IN /\ c.ret[1] = (IF rule.max_attempts > Cardinality(rows)
                           THEN rule.max_attempts - Cardinality(rows) ELSE 0)
            /\ c.ret[1] >= 0 /\ c.ret[2] >= 0
            /\ rows = {} => c.ret[2] = rule.time_window
            /\ rows # {} =>
                 \E e \in 0..(c.at + 1) :
                    /\ \E i \in rows :
                         /\ \A j \in rows : throttle_log[i].timestamp
                                               <= throttle_log[j].timestamp
                         /\ 3 * e - (t3 - 3 * throttle_log[i].timestamp)
                               \in {-1, 0, 1}
                    /\ c.ret[2] = (IF rule.time_window > e
                                   THEN rule.time_window - e ELSE 0)
            /\ throttle_log' = throttle_log
            /\ \A ip \in IPs : \A e \in Endpoints :
                 CrlResult(throttle_rules', throttle_log', ip, e, now')
                    = CrlResult(throttle_rules, throttle_log, ip, e, now)]_vars

\* C21 witness: a client with one entry on "login", logged a second and two
\* thirds ago, asked for its status: one attempt fewer than max_attempts
\* remains and the reset is two seconds nearer than time_window.
Wit_C21 ==
    /\ last.op = "get_rate_limit_status" /\ ~last.failed
    /\ last.endpoint = "login" /\ last.third = 2
    /\ Len(PairLog(last.ip, "login")) = 1
    /\ PairLog(last.ip, "login")[1].timestamp = last.at - 1
    /\ last.ret = <<RuleOf("login").max_attempts - 1,
                    RuleOf("login").time_window - 2>>

\* This step is a completed clear_expired_logs call on a healthy store.
ClearStep ==
    /\ last'.n = last.n + 1
    /\ last'.op = "clear_expired_logs"
    /\ ~last'.failed

\* Whether s is a subsequence of the sequence t.
RECURSIVE IsSubSeq(_, _)
IsSubSeq(s, t) ==
    IF s = <<>> THEN TRUE
    ELSE IF t = <<>> THEN FALSE
    ELSE IF Head(s) = Head(t) THEN IsSubSeq(Tail(s), Tail(t))
    ELSE IsSubSeq(s, Tail(t))

\* C22: clear_expired_logs deletes exactly the throttle_log entries older
\* than one day: afterwards the log holds, in their order, the entries whose
\* timestamp is not more than a day back, an entry exactly one day old
\* included, and nothing else; and a second run at the same time would
\* delete nothing more.
Thm_C22 ==
    [][ClearStep =>
         LET Newer(r) == now - r.timestamp <= RetentionSeconds
             Older(r) == now - r.timestamp > RetentionSeconds
         IN /\ IsSubSeq(throttle_log', throttle_log)
            /\ \A i \in DOMAIN throttle_log' : Newer(throttle_log'[i])
            /\ Len(throttle_log') =
                  Cardinality({i \in DOMAIN throttle_log :
                                   ~Older(throttle_log[i])})
            /\ ClearedLog(throttle_log', now') = throttle_log'
            /\ last'.ret]_vars

\* C22 witness: a cleanup has just run on a log that held an entry older
\* than a day and an entry exactly one day old; it deleted one row, and the
\* entry exactly one day old is the one that is left.
Wit_C22 ==
    /\ last.op = "clear_expired_logs" /\ ~last.failed
    /\ last.at = now /\ now = RetentionSeconds + 1
    /\ last.deleted = 1
    /\ Len(throttle_log) = 1
    /\ throttle_log[1].timestamp = 1

\* C23: several sessions may be active for one account.  create_session
\* adds one session and leaves every existing session, of that user and of
\* any other, exactly as it was; invalidate_session(t) changes no session
\* whose token is not t, so that verify_session answers for every other
\* token, from every client, as it answered before.
Thm_C23 ==
    [][/\ SessStep("create_session") =>
             /\ Len(user_sessions') = Len(user_sessions) + 1
             /\ \A i \in DOMAIN user_sessions :
                   user_sessions'[i] = user_sessions[i]
       /\ SessStep("invalidate_session") =>
             /\ Len(user_sessions') = Len(user_sessions)
             /\ \A i \in DOMAIN user_sessions :
                   user_sessions[i].session_token # last'.token
                      => user_sessions'[i] = user_sessions[i]
             /\ \A token \in Tokens \ {last'.token} :
                \A ip \in IPs : \A ua \in UAs :
                   SelectSession(user_sessions', token, ip, ua, now')
                      = SelectSession(user_sessions, token, ip, ua, now)]_vars

\* C23 witness: one account holds two sessions; one of them has just been
\* invalidated, the other is still active and verifies for its client.
Wit_C23 ==
    /\ last.op = "invalidate_session" /\ last.ret = TRUE
    /\ Len(user_sessions) = 2
    /\ user_sessions[1].user_id = user_sessions[2].user_id
    /\ \E i, j \in DOMAIN user_sessions :
          /\ user_sessions[i].session_token = last.token
          /\ ~user_sessions[i].is_active
          /\ user_sessions[j].session_token # last.token
          /\ user_sessions[j].is_active
          /\ SelectSession(user_sessions, user_sessions[j].session_token,
                           user_sessions[j].ip_address,
                           user_sessions[j].user_agent, now)
                = Some(user_sessions[j].user_id)

----------------------------------------------------------------------------
(* Claims about login_required *)

\* This step is a completed request to the protected page.
ProtectedStep ==
    /\ last'.n = last.n + 1
    /\ last'.op = "profile_settings"

\* The store holds a session that the request of the record c with the
\* token of the cookie ck may use: active, not expired when the request
\* arrives, created from the request's address with the request's agent.
StoreAccepts(ck, c) ==
    \E i \in DOMAIN user_sessions :
       /\ user_sessions[i].session_token = ck.session_token
       /\ user_sessions[i].is_active
       /\ c.at < user_sessions[i].expires_at
       /\ user_sessions[i].ip_address = c.ip
       /\ user_sessions[i].user_agent = c.ua

\* C24: every request to a page behind login_required is decided by the
\* store as it is when the request arrives and by the request's own address
\* and agent.  The page is served iff the cookie holds a token and the store
\* holds an active, unexpired session with that token, address and agent;
\* otherwise the request is redirected to the login page, the handler
\* changes nothing, and the cookie holds no credentials afterwards, as for
\* a browser that never logged in.
Thm_C24 ==
    [][ProtectedStep =>
         LET served == cookie # NULL /\ StoreAccepts(Val(cookie), last')
         IN /\ served => (last'.status = 200 /\ cookie' = cookie)
            /\ ~served => /\ last'.status = 302
                          /\ last'.body = "auth.login"
                          /\ cookie' = NULL
            /\ users' = users /\ user_sessions' = user_sessions]_vars

\* C24 witness: a browser presented the cookie of a session it had logged
\* out of, from the right address with the right agent, before the session
\* expired: it was sent to the login page and its cookie was cleared.
Wit_C24 ==
    /\ last.op = "profile_settings" /\ last.status = 302
    /\ cookie = NULL
    /\ last.at = now
    /\ last.token # NULL
    /\ \E i \in DOMAIN user_sessions :
          /\ user_sessions[i].session_token = Val(last.token)
          /\ ~user_sessions[i].is_active
          /\ user_sessions[i].expires_at > now
          /\ user_sessions[i].ip_address = last.ip
          /\ user_sessions[i].user_agent = last.ua

----------------------------------------------------------------------------
(* Claims about password reset and account uniqueness *)

\* C25: a reset request whose new password validate_password refuses is
\* answered with the policy's error and consumes nothing: every account
\* keeps its reset token, the token's time of issue and its password hash.
Thm_C25 ==
    [][(/\ last'.n = last.n + 1
        /\ last'.op = "reset_password"
        /\ ~validate_password(last'.password).is_valid)
          => /\ ~last'.success
             /\ last'.body = validate_password(last'.password).error
             /\ \A u \in DOMAIN users :
                   /\ users'[u].reset_password_token
                         = users[u].reset_password_token
                   /\ users'[u].reset_token_created_at
                         = users[u].reset_token_created_at
                   /\ users'[u].password_hash = users[u].password_hash
             /\ DOMAIN users' = DOMAIN users]_vars

\* C25 witness: a reset was asked with alice's pending token, still within
\* its hour, and a password the policy refuses; the token is still pending
\* and the hash is still that of her old password.
Wit_C25 ==
    /\ last.op = "reset_password" /\ ~last.success
    /\ ~validate_password(last.password).is_valid
    /\ users[1].reset_password_token = Some(last.token)
    /\ now - Val(users[1].reset_token_created_at) <= ResetTTL
    /\ users[1].password_hash = hashpw(PwStrong)

\* The completed create_user calls i < j ran concurrently: the later one to
\* return began before the earlier one returned.
ConcurrentRegistrations(i, j) ==
    /\ i < j
    /\ calls[i].op = "create_user" /\ calls[j].op = "create_user"
    /\ calls[j].began < i
    /\ \/ calls[i].username = calls[j].username
       \/ calls[i].email = calls[j].email

NoSharedNames ==
    \A u, v \in DOMAIN users :
       u # v => /\ users[u].username # users[v].username
                /\ users[u].email # users[v].email

\* C26, as the specification states it: no two accounts share a username or
\* an email, and of two concurrent registrations with the same username or
\* email at most one returns a user id.
Cex_C26 ==
    /\ NoSharedNames
    /\ \A i, j \in DOMAIN calls :
          ConcurrentRegistrations(i, j)
             => (calls[i].ret = NULL \/ calls[j].ret = NULL)

\* C26, amended: in every reachable state no two accounts share a username
\* and no two share an email, under every interleaving of create_user and
\* update_user_profile; and of two concurrent registrations with the same
\* username or email both return a user id only when the account the first
\* made was given another username and email by an update_user_profile call
\* that returned before the second registration returned.
Thm_C26 ==
    /\ NoSharedNames
    /\ \A i, j \in DOMAIN calls :
          (ConcurrentRegistrations(i, j)
             /\ calls[i].ret # NULL /\ calls[j].ret # NULL)
          => \E k \in (i + 1)..(j - 1) :
                /\ calls[k].op = "update_user_profile"
                /\ calls[k].ret = calls[i].ret
                /\ calls[k].username # calls[j].username
                /\ calls[k].email # calls[j].email

\* C26 witness: two registrations of the same username ran concurrently,
\* both got past the SELECT, the INSERT of the second was refused by the
\* store, and only the first returned a user id.
Wit_C26 ==
    /\ Len(calls) = 2
    /\ ConcurrentRegistrations(1, 2)
    /\ calls[1].username = calls[2].username
    /\ calls[1].began = 0 /\ calls[2].began = 0
    /\ calls[1].ret # NULL /\ calls[2].ret = NULL
    /\ calls[2].raised
    /\ Len(users) = 2

----------------------------------------------------------------------------
(* Claims about lockout and the login history *)

\* C27, as the specification states it: while an account is locked
\* (account_locked_until is set and still ahead), no verify_user call that
\* returns increments failed_login_attempts, moves or clears
\* account_locked_until, or returns the account.
Cex_C27 ==
    [][\A u \in DOMAIN users :
          (/\ VerifyStep
           /\ users[u].account_locked_until # NULL
           /\ Val(users[u].account_locked_until) > now)
          => /\ users'[u].failed_login_attempts
                   = users[u].failed_login_attempts
             /\ users'[u].account_locked_until = users[u].account_locked_until
             /\ Last(calls').ret = NULL]_vars

\* C28: sequential callers.  A verify_user call with a wrong password on an
\* existing account that is not locked adds exactly one to
\* failed_login_attempts and sets last_failed_login to now; it sets
\* account_locked_until to now + 15 minutes when the counter after the
\* increment has reached 5 (is 5 or more) and leaves it as it was otherwise;
\* it logs "Invalid password" for the account and returns no account.
Thm_C28 ==
    [][\A u \in DOMAIN users :
          ( /\ VerifyStep
            /\ Last(calls').username = users[u].username
            /\ ~checkpw(Last(calls').password, users[u].password_hash)
            /\ LockOver(users[u], now) )
          => /\ users'[u].failed_login_attempts
                   = users[u].failed_login_attempts + 1
             /\ users'[u].last_failed_login = Some(now)
             /\ users'[u].failed_login_attempts >= 5
                   => users'[u].account_locked_until = Some(now + 15 * 60)
             /\ users'[u].failed_login_attempts < 5
                   => users'[u].account_locked_until
                         = users[u].account_locked_until
             /\ Len(login_history') = Len(login_history) + 1
             /\ Last(login_history').user_id = Some(u)
             /\ ~Last(login_history').login_successful
             /\ Last(login_history').failure_reason = Some("Invalid password")
             /\ Last(calls').ret = NULL]_vars

\* C28 witness: the fifth wrong password in a row has just been refused as
\* "Invalid password": the counter is 5 and the account is locked for 15
\* minutes from now.
Wit_C28 ==
    /\ calls # <<>>
    /\ Last(calls).op = "verify_user" /\ Last(calls).at = now
    /\ Last(calls).reason = Some("Invalid password")
    /\ users[1].failed_login_attempts = 5
    /\ users[1].last_failed_login = Some(now)
    /\ users[1].account_locked_until = Some(now + 15 * 60)

\* C29: sequential callers.  failed_login_attempts goes back to 0 only in a
\* verify_user call that returns the account; no other step lowers it, the
\* passing of time least of all.  So when a lock has run out and no login
\* has succeeded since, the counter is still 5 or more, and a wrong password
\* then raises it by one and locks the account for 15 minutes from now.
Thm_C29 ==
    [][\A u \in DOMAIN users :
          /\ users'[u].failed_login_attempts < users[u].failed_login_attempts
                => /\ VerifyStep
                   /\ Last(calls').ret # NULL
                   /\ users'[u].failed_login_attempts = 0
          /\ ( /\ VerifyStep
               /\ Last(calls').username = users[u].username
               /\ ~checkpw(Last(calls').password, users[u].password_hash)
               /\ users[u].account_locked_until # NULL
               /\ now >= Val(users[u].account_locked_until) )
             => /\ users[u].failed_login_attempts >= 5
                /\ users'[u].failed_login_attempts
                      = users[u].failed_login_attempts + 1
                /\ users'[u].account_locked_until = Some(now + 15 * 60)]_vars

\* C29 witness: five wrong passwords locked the account, the lock ran out,
\* and the next wrong password, the sixth, has locked it again at once.
Wit_C29 ==
    /\ Len(calls) = 6
    /\ \A i \in 1..6 : calls[i].reason = Some("Invalid password")
    /\ calls[5].at < calls[6].at /\ calls[6].at = now
    /\ users[1].failed_login_attempts = 6
    /\ users[1].account_locked_until = Some(now + 15 * 60)

\* The failure reason the claim gives for a call of (username, password) on
\* the accounts us at the time t: NULL for a successful login.
ClaimedReason(us, username, password, t) ==
    IF \A u \in DOMAIN us : us[u].username # username
    THEN Some("User not found")
    ELSE LET u == CHOOSE u \in DOMAIN us : us[u].username = username IN
         IF us[u].account_locked_until # NULL
            /\ Val(us[u].account_locked_until) > t
         THEN Some("Account locked")
         ELSE IF us[u].password_hash # hashpw(password)
         THEN Some("Invalid password")
         ELSE IF ~us[u].is_active THEN Some("Account not activated")
         ELSE NULL

\* C30: every verify_user call on a healthy store writes exactly one
\* login_history entry and alters none: "User not found" without a user_id
\* for an unknown username, else for the account "Account locked",
\* "Invalid password", "Account not activated" or a successful entry without
\* a reason; and the entry is marked successful iff the call returns the
\* account.
Thm_C30 ==
    [][VerifyStep =>
         LET c == Last(calls')
             e == Last(login_history')
         IN /\ Len(login_history') = Len(login_history) + 1
            /\ SubSeq(login_history', 1, Len(login_history)) = login_history
            /\ e.failure_reason
                  = ClaimedReason(users, c.username, c.password, now)
            /\ e.user_id = NULL
                  <=> e.failure_reason = Some("User not found")
            /\ e.user_id # NULL
                  => users[Val(e.user_id)].username = c.username
            /\ e.login_successful <=> c.ret # NULL
            /\ e.login_successful <=> e.failure_reason = NULL]_vars

\* C30 witness: entries "User not found", "Invalid password", "Account
\* locked" and a successful one have been written, the last of them by a
\* login that returned the account.
Wit_C30 ==
    /\ \A reason \in {Some("User not found"), Some("Account locked"),
                      Some("Invalid password"), NULL} :
          \E i \in DOMAIN login_history :
             login_history[i].failure_reason = reason
    /\ Last(login_history).login_successful
    /\ Last(calls).ret # NULL

----------------------------------------------------------------------------
(* Claims about the audit trail *)

\* This step is a completed verify_user call during which the store
\* operation named by fail raised ("none": a healthy store).
VerifyStepF(fail) ==
    /\ last'.n = last.n + 1
    /\ last'.op = "verify_user"
    /\ last'.fail = fail

\* C31: a failure to write the login_history entry does not change what
\* verify_user does otherwise: on every branch the call returns what it
\* returns on a healthy store, and the account row it commits (counter
\* raised, lock set, counter and lock reset, or nothing) is the one it
\* commits on a healthy store; only the entry is missing.
Thm_C31 ==
    [][VerifyStepF("log") =>
         LET c == last'
             healthy == VerifyResult(users, login_history, c.username,
                                     c.password, "ip1", "ua1", c.at)
         IN /\ c.ret = healthy.branch.ret
            /\ users' = healthy.users
            /\ login_history' = login_history
            /\ \A u \in DOMAIN users :
                 /\ (c.ret # NULL /\ Val(c.ret).user_id = u)
                       => users'[u].failed_login_attempts = 0
                 /\ (/\ users[u].username = c.username
                     /\ ~checkpw(c.password, users[u].password_hash)
                     /\ LockOver(users[u], now))
                       => users'[u].failed_login_attempts
                             = users[u].failed_login_attempts + 1]_vars

\* C31 witness: after a wrong password had raised the counter, the correct
\* password was given while the history insert failed: the call returned
\* the account and the counter is back at 0, with one history entry only.
Wit_C31 ==
    /\ last.op = "verify_user" /\ last.fail = "log" /\ last.n = 2
    /\ last.ret # NULL
    /\ users[1].failed_login_attempts = 0
    /\ users[1].last_failed_login # NULL
    /\ users[1].last_login = Some(now)
    /\ Len(login_history) = 1
    /\ login_history[1].failure_reason = Some("Invalid password")

\* C32, as the specification states it: a refusal is always in the audit
\* log, also when a store operation fails.  Every check_rate_limit call that
\* returns false on an endpoint with a rule leaves a throttle_log entry of
\* its client and endpoint with is_blocked = true, and every verify_user
\* call refused because the account is locked leaves a login_history entry
\* with the reason "Account locked".
Cex_C32 ==
    [][/\ (/\ last'.n = last.n + 1
           /\ last'.op = "check_rate_limit"
           /\ throttle_rules[last'.endpoint] # NULL
           /\ ~last'.ret)
          => /\ Len(throttle_log') = Len(throttle_log) + 1
             /\ Last(throttle_log').is_blocked
             /\ Last(throttle_log').ip_address = last'.ip
             /\ Last(throttle_log').endpoint = last'.endpoint
       /\ (/\ last'.n = last.n + 1
           /\ last'.op = "verify_user"
           /\ \E u \in DOMAIN users :
                 /\ users[u].username = last'.username
                 /\ ~LockOver(users[u], now))
          => /\ Len(login_history') = Len(login_history) + 1
             /\ Last(login_history').failure_reason
                   = Some("Account locked")]_vars

\* This step is a completed check_rate_limit call for an endpoint with a
\* rule.
MeteredStep ==
    /\ last'.n = last.n + 1
    /\ last'.op = "check_rate_limit"
    /\ throttle_rules[last'.endpoint] # NULL

\* The step has appended to throttle_log one entry of the call's client and
\* endpoint, stamped now, and has altered no other entry.
LoggedOnce ==
    /\ Len(throttle_log') = Len(throttle_log) + 1
    /\ SubSeq(throttle_log', 1, Len(throttle_log)) = throttle_log
    /\ Last(throttle_log').ip_address = last'.ip
    /\ Last(throttle_log').endpoint = last'.endpoint
    /\ Last(throttle_log').timestamp = now

\* C33: on an endpoint with a rule, a check_rate_limit call that meets no
\* storage failure appends exactly one throttle_log entry of its client and
\* endpoint, with is_blocked the negation of what it returns, so that the
\* call itself is counted by the calls after it; and a call returns true
\* only when that entry is committed: when the insert or the commit fails
\* it returns false.
Thm_C33 ==
    [][MeteredStep =>
         /\ ~last'.failed =>
               /\ LoggedOnce
               /\ Last(throttle_log').is_blocked = ~last'.ret
               /\ Cardinality({i \in DOMAIN throttle_log' :
                      /\ throttle_log'[i].ip_address = last'.ip
                      /\ throttle_log'[i].endpoint = last'.endpoint
                      /\ throttle_log'[i].timestamp = now})
                  = 1 + Cardinality({i \in DOMAIN throttle_log :
                      /\ throttle_log[i].ip_address = last'.ip
                      /\ throttle_log[i].endpoint = last'.endpoint
                      /\ throttle_log[i].timestamp = now})
         /\ last'.ret => (LoggedOnce /\ ~Last(throttle_log').is_blocked)
         /\ last'.failed => ~last'.ret]_vars

\* C33 witness: a client at its limit called again on a healthy store: the
\* call was refused and its entry, marked blocked, is the last of the log.
Wit_C33 ==
    /\ last.op = "check_rate_limit" /\ ~last.failed /\ ~last.ret
    /\ last.endpoint = "login" /\ last.at = now
    /\ Last(throttle_log).is_blocked
    /\ Last(throttle_log).ip_address = last.ip
    /\ Len(PairLog(last.ip, "login")) = RuleOf("login").max_attempts + 1


\* C34: no line activate_user writes to the application log carries an
\* activation token in full, on any branch, the unknown-token branch included.
Cex_C34 ==
    \A i \in DOMAIN calls :
        calls[i].op = "activate_user" => calls[i].logged.token = NULL


\* The check_rate_limit calls for the pair of call j that completed before
\* it, admitted or refused, inside the trailing window of the endpoint's
\* rule that ends at call j.
EarlierInWindow(j) ==
    {i \in 1..(j - 1) :
        /\ calls[i].op = "check_rate_limit"
        /\ calls[i].ip = calls[j].ip
        /\ calls[i].endpoint = calls[j].endpoint
        /\ calls[i].at > calls[j].at - RuleOf(calls[j].endpoint).time_window}

\* C35: refused calls are logged and counted like admitted ones: a call
\* whose trailing time_window already holds at least max_attempts calls of
\* its client for its endpoint, admitted or refused, is refused, so a client
\* that keeps that rate is never admitted again.
Thm_C35 ==
    \A j \in DOMAIN calls :
        (/\ calls[j].op = "check_rate_limit"
         /\ calls[j].endpoint \in Metered
         /\ Cardinality(EarlierInWindow(j))
               >= RuleOf(calls[j].endpoint).max_attempts)
        => ~calls[j].ret

\* C35 witness: a call was refused although every admitted call of its pair
\* had left the window: the calls that fill the window were refused
\* themselves.
Wit_C35 ==
    \E j \in DOMAIN calls :
        /\ calls[j].op = "check_rate_limit"
        /\ calls[j].endpoint \in Metered
        /\ ~calls[j].ret
        /\ EarlierInWindow(j) # {}
        /\ \A i \in EarlierInWindow(j) : ~calls[i].ret
        /\ \E i \in 1..(j - 1) :
              /\ calls[i].ip = calls[j].ip
              /\ calls[i].endpoint = calls[j].endpoint
              /\ calls[i].ret


\* C36: a block is never permanent: a check_rate_limit call on a metered
\* endpoint (max_attempts >= 1, healthy store) whose client made no call for
\* that endpoint during the time_window seconds before it returns true,
\* however many of the client's calls were refused before and whatever
\* other clients logged meanwhile.
Thm_C36 ==
    \A j \in DOMAIN calls :
        (/\ calls[j].op = "check_rate_limit"
         /\ calls[j].endpoint \in Metered
         /\ EarlierInWindow(j) = {})
        => calls[j].ret

\* C36 witness: a client that had been refused kept silent for exactly
\* time_window seconds and was admitted, while another client's entry for
\* the same endpoint lay inside that window.
Wit_C36 ==
    \E j \in DOMAIN calls : \E i, k \in 1..(j - 1) :
        /\ calls[j].op = "check_rate_limit"
        /\ calls[j].endpoint \in Metered
        /\ calls[j].ret
        /\ EarlierInWindow(j) = {}
        /\ calls[i].ip = calls[j].ip
        /\ calls[i].endpoint = calls[j].endpoint
        /\ ~calls[i].ret
        /\ calls[i].at = calls[j].at - RuleOf(calls[j].endpoint).time_window
        /\ calls[k].ip # calls[j].ip
        /\ calls[k].endpoint = calls[j].endpoint
        /\ calls[k].at > calls[j].at - RuleOf(calls[j].endpoint).time_window


\* throttle_log with its timestamps in thirds of a second.
LogInThirds ==
    [i \in DOMAIN throttle_log |->
        [throttle_log[i] EXCEPT !.timestamp = 3 * @]]

\* What check_rate_limit decides for (ip, endpoint) on the present
\* throttle_log at the instant t3, in thirds of a second: its COUNT and its
\* comparison, "return not is_blocked".
WouldAdmit(ip, endpoint, t3) ==
    ~IsBlocked(CountAttempts(LogInThirds, ip, endpoint, t3,
                             3 * RuleOf(endpoint).time_window),
               RuleOf(endpoint).max_attempts)

\* C37: on a metered endpoint, for the same store state and the same
\* instant, get_rate_limit_status reports remaining_attempts > 0 exactly
\* when check_rate_limit would return true, and remaining_attempts = 0
\* exactly when it would return false.
Thm_C37 ==
    (/\ last.op = "get_rate_limit_status"
     /\ ~last.failed
     /\ last.endpoint \in Metered)
    => LET t3 == 3 * last.at + last.third
           admit == WouldAdmit(last.ip, last.endpoint, t3)
       IN /\ (last.ret[1] > 0) <=> admit
          /\ (last.ret[1] = 0) <=> ~admit
          /\ last.third = 0 =>
                (admit <=> CrlResult(throttle_rules, throttle_log, last.ip,
                                     last.endpoint, last.at).ret)

\* C37 witness: the client had used up its attempts, its entries left the
\* window exactly time_window seconds later, and at that instant
\* get_rate_limit_status reported attempts remaining.
Wit_C37 ==
    /\ last.op = "get_rate_limit_status" /\ ~last.failed
    /\ last.endpoint = "login" /\ last.third = 0 /\ last.at = now
    /\ last.ret[1] > 0
    /\ Len(PairLog(last.ip, "login")) >= RuleOf("login").max_attempts
    /\ \E i \in DOMAIN throttle_log :
          /\ throttle_log[i].ip_address = last.ip
          /\ throttle_log[i].endpoint = "login"
          /\ throttle_log[i].timestamp = now - RuleOf("login").time_window


\* This step is a verify_user call that added an entry to login_history.
VerifyLogged ==
    /\ last'.n = last.n + 1
    /\ last'.op = "verify_user"
    /\ Len(login_history') = Len(login_history) + 1

\* C38, as the specification states it: the audit entry and the account
\* mutation of one verify_user call are all-or-nothing: a successful entry
\* is written only by a call that returned the account and whose counter
\* reset was committed, and an "Invalid password" entry only by a call whose
\* counter increment was committed.
Cex_C38 ==
    [][VerifyLogged =>
         LET e == Last(login_history')
             healthy == VerifyResult(users, login_history, last'.username,
                                     last'.password, "ip1", "ua1", last'.at)
         IN /\ e.login_successful =>
                 (last'.ret # NULL /\ users' = healthy.users)
            /\ e.failure_reason = Some("Invalid password") =>
                 users' = healthy.users]_vars


\* This step is a web request in which verify_user ran: it added its entry
\* to login_history.
VerifyInRequest ==
    /\ last'.n = last.n + 1
    /\ Len(login_history') = Len(login_history) + 1

\* C39, as the specification states it: every verify_user call made by a web
\* handler, the login handler or the change-password handler, comes after a
\* check_rate_limit call of the same request that returned true, so
\* failed_login_attempts is raised and an account locked only in a request
\* that logged an admitted throttle entry.
Cex_C39 ==
    [][/\ VerifyInRequest =>
            /\ Len(throttle_log') = Len(throttle_log) + 1
            /\ ~Last(throttle_log').is_blocked
       /\ (\E u \in DOMAIN users :
              /\ u \in DOMAIN users'
              /\ users'[u].failed_login_attempts
                    > users[u].failed_login_attempts)
            => Len(throttle_log') = Len(throttle_log) + 1]_vars

====
